---- MODULE Spec2Model ----
(***************************************************************************)
(* Limit order book and matching engine (lob_engine).                      *)
(*                                                                         *)
(* The state is the MatchingEngine object: the order pool and its cursor,  *)
(* the symbol -> OrderBook directory, the execution queue and the          *)
(* counters.  A book holds its pool of PriceLevel nodes, the two binary    *)
(* search trees over them, the best pointers and the id -> order map.      *)
(* Pointers are indices: an Order* is a slot of the order pool, a          *)
(* PriceLevel* a slot of the owning book's level pool, nullptr is 0.       *)
(*                                                                         *)
(* Unsigned arithmetic.  A uint32_t or uint64_t value v is held as the     *)
(* integer r with r = v modulo 2^w and |r| < 2^31: a negative r stands for *)
(* 2^w + r, the value the C++ arithmetic wraps to.  Addition and           *)
(* subtraction are then the integer ones, a test against 0 is exact, and   *)
(* an unsigned comparison is ULess.                                        *)
(***************************************************************************)
EXTENDS Integers, Sequences, FiniteSets, TLC

\* ------------------------------------------------------------------ bounds

\* EngineConfig::order_pool_size of the engine under study.
PoolSize == 3
\* Prices of LIMIT orders are 1..MaxPrice ticks.
MaxPrice == 3
\* Quantities of submitted orders are 1..MaxQty; modify_order takes 0..MaxQty.
MaxQty == 2
\* A run makes at most MaxModifies calls of modify_order.
MaxModifies == 1
\* SpecSweep: the order_pool_size and the prices 1..SweepMaxPrice.
SweepPoolSize == 4
SweepMaxPrice == 4
\* SpecDeep: the order_pool_size, the prices 1..DeepMaxPrice, and the order
\* ids 1..DeepCancelIds that may be cancelled.
DeepPoolSize == 6
DeepMaxPrice == 4
DeepCancelIds == 3
\* The execution queue has 2^QueueBits entries.
QueueBits == 2
\* SpecQueue: the pool, the quantity of a SELL order, and the number of pushes
\* of one call the consumer may pop before.
QueuePoolSize == 6
QueueQty == 5
QueuePops == 2
\* SpecPool: the pool, the number of submissions made after it is used up,
\* the highest price and the highest quantity (the lowest is 0).
PoolPoolSize == 2
PoolExtra == 2
PoolMaxPrice == 2
PoolMaxQty == 1
\* SpecRing: the number of push calls the producer thread makes.
RingPushes == 5
\* SpecRun: the order_pool_size and the prices 1..RunMaxPrice.
RunPoolSize == 2
RunMaxPrice == 2
\* SpecPair: the order_pool_size and the prices 1..PairMaxPrice.
PairPoolSize == 3
PairMaxPrice == 2

\* ------------------------------------------------------------------ values

Null == 0

BUY == "BUY"
SELL == "SELL"
LIMIT == "LIMIT"
MARKET == "MARKET"

AllSymbols == {"AAPL", "MSFT"}

Symbols == {"AAPL"}

Timestamps == {1000}

\* The content of a buffer_ entry that was never written (ExecutionReport() = default).
Uninit == [uninit |-> TRUE]

RECURSIVE Pow2(_)
Pow2(n) == IF n = 0 THEN 1 ELSE 2 * Pow2(n - 1)

Capacity == Pow2(QueueBits)

price_level_pool_size == 10000

ULess(a, b) == IF (a < 0) = (b < 0) THEN a < b ELSE b < 0

StdMin(a, b) == IF ULess(b, a) THEN b ELSE a

\* Order(): the default-constructed pool slot.
Order == [order_id |-> 0, timestamp |-> 0, price |-> 0, quantity |-> 0, remaining_quantity |-> 0, side |-> BUY, type |-> LIMIT, next |-> Null, prev |-> Null, parent_level |-> Null]

\* PriceLevel(0): a node of the level pool as insert_level initialises it.
PriceLevel(p) == [price |-> p, total_volume |-> 0, order_count |-> 0, head_order |-> Null, tail_order |-> Null, parent |-> Null, left |-> Null, right |-> Null]

ExecutionReport(oid, mid, ts, p, qty, s, full) == [order_id |-> oid, match_id |-> mid, timestamp |-> ts, price |-> p, executed_quantity |-> qty, side |-> s, is_full_fill |-> full]

\* OrderBook::OrderBook().  Only the nodes handed out so far (1..pool_index_)
\* are held; the others are PriceLevel(0) and no pointer designates them.
OrderBook == [bid_tree_root_ |-> Null, ask_tree_root_ |-> Null, best_bid_ |-> Null, best_ask_ |-> Null, orders_ |-> <<>>, price_level_pool_ |-> <<>>, pool_index_ |-> 0, order_count_ |-> 0, match_count_ |-> 0]

\* The null OrderBook*; a book is designated by its symbol.
NoBook == "nullptr"

VARIABLES config_, order_pool_, pool_index_, books_, execution_queue_, total_orders_, total_matches_, running_, assert_failed, next_order_id, modify_calls, last, reported, queue_symbol, consumer_report, popped, pusher, popper

vars == <<config_, order_pool_, pool_index_, books_, execution_queue_, total_orders_, total_matches_, running_, assert_failed, next_order_id, modify_calls, last, reported, queue_symbol, consumer_report, popped, pusher, popper>>

\* ------------------------------------------------------------------ memory

\* The memory one book operation works on: o the order pool, b the book, af
\* whether an assert() has met a false condition (the build without NDEBUG
\* aborts there; the model goes on as the NDEBUG build does and keeps the
\* flag), reports the vector match_order builds, passives the passive order
\* of each report (not a field of the report; kept for the properties).
Mem(o, b, af) == [o |-> o, b |-> b, af |-> af, reports |-> <<>>, passives |-> <<>>, levels |-> <<>>]

Lv(m, l) == m.b.price_level_pool_[l]

SetLv(m, l, f, v) == [m EXCEPT !.b.price_level_pool_[l][f] = v]

SetOrd(m, x, f, v) == [m EXCEPT !.o[x][f] = v]

Contra(side) == IF side = BUY THEN SELL ELSE BUY

Root(m, side) == IF side = BUY THEN m.b.bid_tree_root_ ELSE m.b.ask_tree_root_

SetRoot(m, side, v) == IF side = BUY THEN [m EXCEPT !.b.bid_tree_root_ = v] ELSE [m EXCEPT !.b.ask_tree_root_ = v]

\* ------------------------------------------------------------------ PriceLevel

\* PriceLevel::add_order that leaves order->next designating the order itself.
PriceLevel_add_order_looping(m, this, order) ==
  LET check(x) == [x EXCEPT !.af = @ \/ order = Null \/ x.o[order].price # Lv(x, this).price]
      link(x) == SetOrd(SetOrd(SetOrd(x, order, "parent_level", this), order, "next", order), order, "prev", Lv(x, this).tail_order)
      append(x) == IF Lv(x, this).tail_order # Null
                   THEN SetOrd(x, Lv(x, this).tail_order, "next", order)
                   ELSE SetLv(x, this, "head_order", order)
      tail(x) == SetLv(x, this, "tail_order", order)
      volume(x) == SetLv(x, this, "total_volume", Lv(x, this).total_volume + x.o[order].remaining_quantity)
      count(x) == SetLv(x, this, "order_count", Lv(x, this).order_count + 1)
  IN  count(volume(tail(append(link(check(m))))))

PriceLevel_add_order(m, this, order) ==
  LET check(x) == [x EXCEPT !.af = @ \/ order = Null \/ x.o[order].price # Lv(x, this).price]
      link(x) == SetOrd(SetOrd(SetOrd(x, order, "parent_level", this), order, "next", Null), order, "prev", Lv(x, this).tail_order)
      append(x) == IF Lv(x, this).tail_order # Null
                   THEN SetOrd(x, Lv(x, this).tail_order, "next", order)
                   ELSE SetLv(x, this, "head_order", order)
      tail(x) == SetLv(x, this, "tail_order", order)
      volume(x) == SetLv(x, this, "total_volume", Lv(x, this).total_volume + x.o[order].remaining_quantity)
      count(x) == SetLv(x, this, "order_count", Lv(x, this).order_count + 1)
  IN  count(volume(tail(append(link(check(m))))))

PriceLevel_remove_order(m, this, order) ==
  LET check(x) == [x EXCEPT !.af = @ \/ order = Null \/ x.o[order].parent_level # this]
      before(x) == IF x.o[order].prev # Null
                   THEN SetOrd(x, x.o[order].prev, "next", x.o[order].next)
                   ELSE SetLv(x, this, "head_order", x.o[order].next)
      after(x) == IF x.o[order].next # Null
                  THEN SetOrd(x, x.o[order].next, "prev", x.o[order].prev)
                  ELSE SetLv(x, this, "tail_order", x.o[order].prev)
      volume(x) == SetLv(x, this, "total_volume", Lv(x, this).total_volume - x.o[order].remaining_quantity)
      count(x) == SetLv(x, this, "order_count", Lv(x, this).order_count - 1)
      clear(x) == SetOrd(SetOrd(SetOrd(x, order, "parent_level", Null), order, "next", Null), order, "prev", Null)
  IN  clear(count(volume(after(before(check(m))))))

\* ------------------------------------------------------------------ level index

RECURSIVE find_level(_, _, _)
find_level(m, price, root) ==
  IF root = Null THEN Null
  ELSE IF price = Lv(m, root).price THEN root
  ELSE find_level(m, price, IF ULess(price, Lv(m, root).price) THEN Lv(m, root).left ELSE Lv(m, root).right)

\* The descent of insert_level from current to the node that gets the new child.
RECURSIVE insert_below(_, _, _, _)
insert_below(m, price, current, new_level) ==
  IF ULess(price, Lv(m, current).price)
  THEN IF Lv(m, current).left = Null
       THEN SetLv(SetLv(m, current, "left", new_level), new_level, "parent", current)
       ELSE insert_below(m, price, Lv(m, current).left, new_level)
  ELSE IF Lv(m, current).right = Null
       THEN SetLv(SetLv(m, current, "right", new_level), new_level, "parent", current)
       ELSE insert_below(m, price, Lv(m, current).right, new_level)

\* insert_level(price, root): the memory after it; the new node is the one
\* at the new pool_index_.
insert_level(m, price, side) ==
  LET new_level == m.b.pool_index_ + 1
      m1 == [m EXCEPT !.af = @ \/ ~(m.b.pool_index_ < price_level_pool_size),
                      !.b.pool_index_ = new_level,
                      !.b.price_level_pool_ = Append(@, PriceLevel(price))]
  IN  IF Root(m1, side) = Null THEN SetRoot(m1, side, new_level)
      ELSE insert_below(m1, price, Root(m1, side), new_level)

\* find_or_create_level(price, side): [m, level].
find_or_create_level(m, price, side) ==
  LET level == find_level(m, price, Root(m, side))
  IN  IF level = Null
      THEN [m |-> insert_level(m, price, side), level |-> m.b.pool_index_ + 1]
      ELSE [m |-> m, level |-> level]

\* The leftmost node below n: the successor walk of remove_level.
RECURSIVE leftmost(_, _)
leftmost(m, n) == IF Lv(m, n).left = Null THEN n ELSE leftmost(m, Lv(m, n).left)

RECURSIVE rightmost(_, _)
rightmost(m, n) == IF Lv(m, n).right = Null THEN n ELSE rightmost(m, Lv(m, n).right)

\* The replacement of level by child below level's parent (or at the root).
splice(m, level, side, child) ==
  LET parent == Lv(m, level).parent
      m1 == IF parent # Null
            THEN IF Lv(m, parent).left = level
                 THEN SetLv(m, parent, "left", child)
                 ELSE SetLv(m, parent, "right", child)
            ELSE SetRoot(m, side, child)
  IN  IF child # Null THEN SetLv(m1, child, "parent", Lv(m1, level).parent) ELSE m1

RECURSIVE remove_level(_, _, _)
remove_level(m, level, side) ==
  IF Lv(m, level).left = Null /\ Lv(m, level).right = Null THEN splice(m, level, side, Null)
  ELSE IF Lv(m, level).left = Null THEN splice(m, level, side, Lv(m, level).right)
  ELSE IF Lv(m, level).right = Null THEN splice(m, level, side, Lv(m, level).left)
  ELSE LET successor == leftmost(m, Lv(m, level).right)
           s == Lv(m, successor)
           m1 == SetLv(SetLv(SetLv(SetLv(SetLv(m, level, "price", s.price), level, "total_volume", s.total_volume), level, "order_count", s.order_count), level, "head_order", s.head_order), level, "tail_order", s.tail_order)
       IN  remove_level(m1, successor, side)

update_best_bid(m) ==
  IF m.b.bid_tree_root_ = Null THEN [m EXCEPT !.b.best_bid_ = Null]
  ELSE [m EXCEPT !.b.best_bid_ = rightmost(m, m.b.bid_tree_root_)]

update_best_ask(m) ==
  IF m.b.ask_tree_root_ = Null THEN [m EXCEPT !.b.best_ask_ = Null]
  ELSE [m EXCEPT !.b.best_ask_ = leftmost(m, m.b.ask_tree_root_)]

\* ------------------------------------------------------------------ OrderBook

Erase(f, k) == [x \in DOMAIN f \ {k} |-> f[x]]

Put(f, k, v) == [x \in DOMAIN f \cup {k} |-> IF x = k THEN v ELSE f[x]]

\* add_order without the insertion into the id map.
OrderBook_add_order_unindexed(m, order) ==
  LET place(fc) == PriceLevel_add_order([fc.m EXCEPT !.af = @ \/ order = Null], fc.level, order)
      best(x, level) ==
        IF x.o[order].side = BUY
        THEN IF x.b.best_bid_ = Null \/ ULess(Lv(x, x.b.best_bid_).price, Lv(x, level).price)
             THEN [x EXCEPT !.b.best_bid_ = level] ELSE x
        ELSE IF x.b.best_ask_ = Null \/ ULess(Lv(x, level).price, Lv(x, x.b.best_ask_).price)
             THEN [x EXCEPT !.b.best_ask_ = level] ELSE x
      count(x) == [x EXCEPT !.b.order_count_ = @ + 1]
      rest(fc) == count(best(place(fc), fc.level))
  IN  rest(find_or_create_level(m, m.o[order].price, m.o[order].side))

\* add_order setting a best pointer only when it is null.
OrderBook_add_order_first_best(m, order) ==
  LET place(fc) == PriceLevel_add_order([fc.m EXCEPT !.af = @ \/ order = Null], fc.level, order)
      index(x) == [x EXCEPT !.b.orders_ = Put(@, x.o[order].order_id, order)]
      best(x, level) ==
        IF x.o[order].side = BUY
        THEN IF x.b.best_bid_ = Null THEN [x EXCEPT !.b.best_bid_ = level] ELSE x
        ELSE IF x.b.best_ask_ = Null THEN [x EXCEPT !.b.best_ask_ = level] ELSE x
      count(x) == [x EXCEPT !.b.order_count_ = @ + 1]
      rest(fc) == count(best(index(place(fc)), fc.level))
  IN  rest(find_or_create_level(m, m.o[order].price, m.o[order].side))

OrderBook_add_order(m, order) ==
  LET place(fc) == PriceLevel_add_order([fc.m EXCEPT !.af = @ \/ order = Null], fc.level, order)
      index(x) == [x EXCEPT !.b.orders_ = Put(@, x.o[order].order_id, order)]
      best(x, level) ==
        IF x.o[order].side = BUY
        THEN IF x.b.best_bid_ = Null \/ ULess(Lv(x, x.b.best_bid_).price, Lv(x, level).price)
             THEN [x EXCEPT !.b.best_bid_ = level] ELSE x
        ELSE IF x.b.best_ask_ = Null \/ ULess(Lv(x, level).price, Lv(x, x.b.best_ask_).price)
             THEN [x EXCEPT !.b.best_ask_ = level] ELSE x
      count(x) == [x EXCEPT !.b.order_count_ = @ + 1]
      rest(fc) == count(best(index(place(fc)), fc.level))
  IN  rest(find_or_create_level(m, m.o[order].price, m.o[order].side))

OrderBook_cancel_order(m, order_id) ==
  IF order_id \notin DOMAIN m.b.orders_ THEN m
  ELSE LET order == m.b.orders_[order_id]
           level == m.o[order].parent_level
           bid(r) == IF level = r.b.best_bid_ THEN update_best_bid(r) ELSE r
           ask(r) == IF level = r.b.best_ask_ THEN update_best_ask(r) ELSE r
           prune(x) == IF Lv(x, level).order_count = 0
                       THEN IF x.o[order].side = BUY
                            THEN bid(remove_level(x, level, BUY))
                            ELSE ask(remove_level(x, level, SELL))
                       ELSE x
           erase(x) == [x EXCEPT !.b.orders_ = Erase(@, order_id), !.b.order_count_ = @ - 1]
       IN  erase(prune(PriceLevel_remove_order(m, level, order)))

OrderBook_modify_order(m, order_id, new_quantity) ==
  IF order_id \notin DOMAIN m.b.orders_ THEN m
  ELSE LET order == m.b.orders_[order_id]
           level == m.o[order].parent_level
           take(x) == SetLv(x, level, "total_volume", Lv(x, level).total_volume - x.o[order].remaining_quantity)
           set(x) == SetOrd(x, order, "remaining_quantity", new_quantity)
           give(x) == SetLv(x, level, "total_volume", Lv(x, level).total_volume + new_quantity)
       IN  give(set(take(m)))

\* execute_trade reporting the aggressor's limit price.
execute_trade_aggressor_price(m, aggressive, passive, quantity, match_id) ==
  ExecutionReport(m.o[aggressive].order_id, match_id, m.o[aggressive].timestamp, m.o[aggressive].price, quantity, m.o[aggressive].side, m.o[aggressive].remaining_quantity = quantity)

\* execute_trade setting is_full_fill when the passive order is used up.
execute_trade_passive_full(m, aggressive, passive, quantity, match_id) ==
  ExecutionReport(m.o[aggressive].order_id, match_id, m.o[aggressive].timestamp, m.o[passive].price, quantity, m.o[aggressive].side, m.o[passive].remaining_quantity = quantity)

\* execute_trade attributing the report to the passive order.
execute_trade_passive_id(m, aggressive, passive, quantity, match_id) ==
  ExecutionReport(m.o[passive].order_id, match_id, m.o[aggressive].timestamp, m.o[passive].price, quantity, m.o[aggressive].side, m.o[aggressive].remaining_quantity = quantity)

\* execute_trade reporting the counter's value before the increment.
execute_trade_stale_match_id(m, aggressive, passive, quantity, match_id) ==
  ExecutionReport(m.o[aggressive].order_id, match_id - 1, m.o[aggressive].timestamp, m.o[passive].price, quantity, m.o[aggressive].side, m.o[aggressive].remaining_quantity = quantity)

execute_trade(m, aggressive, passive, quantity, match_id) ==
  ExecutionReport(m.o[aggressive].order_id, match_id, m.o[aggressive].timestamp, m.o[passive].price, quantity, m.o[aggressive].side, m.o[aggressive].remaining_quantity = quantity)

\* The inner loop of match_order: the walk of contra_level's FIFO from passive.
RECURSIVE match_level(_, _, _, _)
match_level(m, order, contra_level, passive) ==
  IF passive = Null \/ m.o[order].remaining_quantity = 0 THEN m
  ELSE LET match_qty == StdMin(m.o[order].remaining_quantity, m.o[passive].remaining_quantity)
           match_id == m.b.match_count_ + 1
           report(x) == [x EXCEPT !.b.match_count_ = match_id,
                                  !.reports = Append(@, execute_trade(x, order, passive, match_qty, match_id)),
                                  !.passives = Append(@, passive),
                                  !.levels = Append(@, Lv(x, contra_level).price)]
           aggressive(x) == SetOrd(x, order, "remaining_quantity", x.o[order].remaining_quantity - match_qty)
           resting(x) == SetOrd(x, passive, "remaining_quantity", x.o[passive].remaining_quantity - match_qty)
           volume(x) == SetLv(x, contra_level, "total_volume", Lv(x, contra_level).total_volume - match_qty)
           erase(r) == [r EXCEPT !.b.orders_ = Erase(@, r.o[passive].order_id), !.b.order_count_ = @ - 1]
           filled(x) == IF x.o[passive].remaining_quantity = 0
                        THEN erase(PriceLevel_remove_order(x, contra_level, passive))
                        ELSE x
           rest(x) == match_level(filled(x), order, contra_level, x.o[passive].next)
       IN  rest(volume(resting(aggressive(report(m)))))

\* The outer loop of match_order from contra_level on.
RECURSIVE match_loop(_, _, _)
match_loop(m, order, contra_level) ==
  IF m.o[order].remaining_quantity = 0 \/ contra_level = Null THEN m
  ELSE IF /\ m.o[order].type = LIMIT
          /\ \/ m.o[order].side = BUY /\ ULess(m.o[order].price, Lv(m, contra_level).price)
             \/ m.o[order].side = SELL /\ ULess(Lv(m, contra_level).price, m.o[order].price)
       THEN m
  ELSE LET next_level(x) == IF x.o[order].side = BUY THEN Lv(x, contra_level).right ELSE Lv(x, contra_level).left
           depleted(x) == IF x.o[order].side = BUY
                          THEN [remove_level(x, contra_level, SELL) EXCEPT !.b.best_ask_ = next_level(x)]
                          ELSE [remove_level(x, contra_level, BUY) EXCEPT !.b.best_bid_ = next_level(x)]
           rest(x) == IF Lv(x, contra_level).order_count = 0
                      THEN match_loop(depleted(x), order, next_level(x))
                      ELSE x
       IN  rest(match_level(m, order, contra_level, Lv(m, contra_level).head_order))

\* match_order followed by add_order for a LIMIT order with nothing remaining.
match_order_resting(m, order) ==
  LET add(x) == IF x.o[order].type = LIMIT /\ x.o[order].remaining_quantity = 0 THEN OrderBook_add_order(x, order) ELSE x
  IN  IF m.o[order].type # LIMIT /\ m.o[order].type # MARKET THEN m
      ELSE add(match_loop(m, order, IF m.o[order].side = BUY THEN m.b.best_ask_ ELSE m.b.best_bid_))

match_order(m, order) ==
  IF m.o[order].type # LIMIT /\ m.o[order].type # MARKET THEN m
  ELSE match_loop(m, order, IF m.o[order].side = BUY THEN m.b.best_ask_ ELSE m.b.best_bid_)

get_spread(b) ==
  IF b.best_bid_ = Null \/ b.best_ask_ = Null THEN 0
  ELSE b.price_level_pool_[b.best_ask_].price - b.price_level_pool_[b.best_bid_].price

\* The walks of get_total_bid_volume and get_total_ask_volume from level on.
RECURSIVE bid_volume_from(_, _)
bid_volume_from(b, level) ==
  IF level = Null THEN 0
  ELSE b.price_level_pool_[level].total_volume + bid_volume_from(b, b.price_level_pool_[level].right)

RECURSIVE ask_volume_from(_, _)
ask_volume_from(b, level) ==
  IF level = Null THEN 0
  ELSE b.price_level_pool_[level].total_volume + ask_volume_from(b, b.price_level_pool_[level].left)

get_total_bid_volume(b) == bid_volume_from(b, b.bid_tree_root_)

get_total_ask_volume(b) == ask_volume_from(b, b.ask_tree_root_)

\* ------------------------------------------------------------------ SPSCQueue

SPSCQueue == [head_ |-> 0, tail_ |-> 0, buffer_ |-> [i \in 0..(Capacity - 1) |-> Uninit]]

\* push without the test for a full queue.
push_unchecked(q, item) ==
  LET head == q.head_
      next_head == (head + 1) % Capacity
  IN  [q |-> [q EXCEPT !.buffer_[head] = item, !.head_ = next_head], ok |-> TRUE]

\* push(item): [q, ok].
push(q, item) ==
  LET head == q.head_
      next_head == (head + 1) % Capacity
  IN  IF next_head = q.tail_ THEN [q |-> q, ok |-> FALSE]
      ELSE [q |-> [q EXCEPT !.buffer_[head] = item, !.head_ = next_head], ok |-> TRUE]

\* pop that does not advance tail_.
pop_peek(q, old) ==
  IF q.tail_ = q.head_ THEN [q |-> q, ok |-> FALSE, item |-> old]
  ELSE [q |-> q, ok |-> TRUE, item |-> q.buffer_[q.tail_]]

\* pop(item): [q, ok, item], item the value left in the caller's item.
pop(q, old) ==
  LET tail == q.tail_
  IN  IF tail = q.head_ THEN [q |-> q, ok |-> FALSE, item |-> old]
      ELSE [q |-> [q EXCEPT !.tail_ = (tail + 1) % Capacity], ok |-> TRUE, item |-> q.buffer_[tail]]

\* One call of pop(consumer_report) by the consumer thread.  c is what the
\* producer and the consumer share and the consumer's history: the queue q,
\* tags (the symbol whose book generated the report in each buffer_ entry),
\* the consumer's item and, per symbol, the match_ids popped so far.
consume(c) ==
  LET r == pop(c.q, c.item)
      symbol == c.tags[c.q.tail_]
  IN  IF ~r.ok THEN c
      ELSE [c EXCEPT !.q = r.q, !.item = r.item, !.popped[symbol] = Append(@, r.item.match_id)]

\* The push loop counting a report before looking at the result of push.
RECURSIVE push_reports_counting(_, _, _, _, _, _)
push_reports_counting(c, symbol, reports, i, n, pops) ==
  IF i > Len(reports) THEN [c |-> c, n |-> n]
  ELSE LET before == IF i \in pops THEN consume(c) ELSE c
           r == push(before.q, reports[i])
       IN  IF ~r.ok THEN [c |-> before, n |-> n + 1]
           ELSE push_reports_counting([before EXCEPT !.q = r.q, !.tags[before.q.head_] = symbol], symbol, reports, i + 1, n + 1, pops)

\* The loop of submit_order over reports[i..] while the consumer thread calls
\* pop once before each push whose index is in pops: [c, n], n the number
\* pushed.
RECURSIVE push_reports(_, _, _, _, _, _)
push_reports(c, symbol, reports, i, n, pops) ==
  IF i > Len(reports) THEN [c |-> c, n |-> n]
  ELSE LET before == IF i \in pops THEN consume(c) ELSE c
           r == push(before.q, reports[i])
       IN  IF ~r.ok THEN [c |-> before, n |-> n]
           ELSE push_reports([before EXCEPT !.q = r.q, !.tags[before.q.head_] = symbol], symbol, reports, i + 1, n + 1, pops)

\* ------------------------------------------------------------------ MatchingEngine

\* get_book that finds no book.
get_book_absent(symbol) == NoBook

get_book(symbol) == IF symbol \in DOMAIN books_ THEN symbol ELSE NoBook

NoCall == [op |-> "none", symbol |-> "", order |-> Null, reports |-> <<>>, passives |-> <<>>, levels |-> <<>>]

\* The history the properties read, kept beside the program's state:
\* reported[<<symbol, id>>] is the slot of the order submitted under that id
\* and, of the reports generated so far that carry the id, the sum of
\* executed_quantity and the is_full_fill of the latest; queue_symbol[i] is
\* the symbol whose book generated the report in buffer_[i]; popped[symbol]
\* is the sequence of the match_ids of the reports of that book the consumer
\* popped.
RECURSIVE record_reports(_, _, _, _)
record_reports(rep, symbol, reports, i) ==
  IF i > Len(reports) THEN rep
  ELSE LET key == <<symbol, reports[i].order_id>>
           next == IF key \in DOMAIN rep
                   THEN [rep EXCEPT ![key].sum = @ + reports[i].executed_quantity, ![key].full = reports[i].is_full_fill]
                   ELSE rep
       IN  record_reports(next, symbol, reports, i + 1)

\* What the push loop and the consumer work on.
Consumer == [q |-> execution_queue_, tags |-> queue_symbol, item |-> consumer_report, popped |-> popped]

\* The producer thread of the execution queue between two statements of
\* push: its position pc, the locals head and next_head, the argument item,
\* the number of tail_ stores the latest tail_ value it loaded stands for
\* (tail_seen), and its history: the number of calls of push, their results
\* and the items of the calls that returned true.
PushThread == [pc |-> "idle", head |-> 0, next_head |-> 0, item |-> Uninit, tail_seen |-> 0, calls |-> 0, results |-> <<>>, accepted |-> <<>>]

\* The consumer thread between two statements of pop: its position pc, the
\* local tail, the number of head_ stores the latest head_ value it loaded
\* stands for (head_seen), and the items of the calls that returned true.
PopThread == [pc |-> "idle", tail |-> 0, head_seen |-> 0, returned |-> <<>>]

\* MatchingEngine(config) with config.order_pool_size = n; the consumer's
\* report (consumer_report) is a default-constructed ExecutionReport.
MatchingEngine(n) ==
  /\ config_ = [order_pool_size |-> n]
  /\ order_pool_ = [i \in 1..n |-> Order]
  /\ pool_index_ = 0
  /\ books_ = <<>>
  /\ execution_queue_ = SPSCQueue
  /\ total_orders_ = 0
  /\ total_matches_ = 0
  /\ running_ = FALSE
  /\ assert_failed = FALSE
  /\ next_order_id = [s \in AllSymbols |-> 1]
  /\ last = NoCall
  /\ modify_calls = 0
  /\ reported = <<>>
  /\ queue_symbol = [i \in 0..(Capacity - 1) |-> ""]
  /\ consumer_report = Uninit
  /\ popped = [s \in AllSymbols |-> <<>>]
  /\ pusher = PushThread
  /\ popper = PopThread

\* submit_order while the consumer thread pops once before each push of the
\* loop whose index is in pops.
submit_order_during(symbol, order_id, timestamp, price, quantity, side, type, pops) ==
  LET book == IF get_book(symbol) = NoBook THEN OrderBook ELSE books_[symbol]
      idx == pool_index_
      order == idx + 1
      constructed == [order_pool_ EXCEPT ![order].order_id = order_id, ![order].timestamp = timestamp, ![order].price = price, ![order].quantity = quantity, ![order].remaining_quantity = quantity, ![order].side = side, ![order].type = type]
      aggressive == \/ type = MARKET
                    \/ /\ type = LIMIT
                       /\ \/ side = BUY /\ book.best_ask_ # Null /\ ~ULess(price, book.price_level_pool_[book.best_ask_].price)
                          \/ side = SELL /\ book.best_bid_ # Null /\ ~ULess(book.price_level_pool_[book.best_bid_].price, price)
      match(x) == IF aggressive THEN match_order(x, order) ELSE x
      add(x) == IF x.o[order].remaining_quantity # 0 /\ type = LIMIT THEN OrderBook_add_order(x, order) ELSE x
      done(x, pushed, reports, passives) ==
        /\ order_pool_' = x.o
        /\ books_' = Put(books_, symbol, x.b)
        /\ pool_index_' = idx + 1
        /\ execution_queue_' = pushed.c.q
        /\ total_matches_' = total_matches_ + pushed.n
        /\ total_orders_' = total_orders_ + 1
        /\ assert_failed' = x.af
        /\ last' = [op |-> "submit", symbol |-> symbol, order |-> order, reports |-> reports, passives |-> passives, levels |-> x.levels]
        /\ reported' = record_reports(Put(reported, <<symbol, order_id>>, [order |-> order, sum |-> 0, full |-> FALSE]), symbol, reports, 1)
        /\ queue_symbol' = pushed.c.tags
        /\ consumer_report' = pushed.c.item
        /\ popped' = pushed.c.popped
        /\ UNCHANGED <<config_, running_>>
      rest(x) == done(add(x), push_reports(Consumer, symbol, x.reports, 1, 0, pops), x.reports, x.passives)
  IN  IF ~(idx < config_.order_pool_size)
      THEN /\ books_' = Put(books_, symbol, book)
           /\ pool_index_' = idx + 1
           /\ last' = [op |-> "submit", symbol |-> symbol, order |-> Null, reports |-> <<>>, passives |-> <<>>, levels |-> <<>>]
           /\ UNCHANGED <<config_, order_pool_, execution_queue_, total_orders_, total_matches_, running_, assert_failed, reported, queue_symbol, consumer_report, popped>>
      ELSE rest(match(Mem(constructed, book, assert_failed)))

\* submit_order counting the order before the check of allocate_order's result.
submit_order_counting(symbol, order_id, timestamp, price, quantity, side, type) ==
  IF pool_index_ < config_.order_pool_size
  THEN submit_order_during(symbol, order_id, timestamp, price, quantity, side, type, {})
  ELSE /\ books_' = Put(books_, symbol, IF get_book(symbol) = NoBook THEN OrderBook ELSE books_[symbol])
       /\ pool_index_' = pool_index_ + 1
       /\ total_orders_' = total_orders_ + 1
       /\ last' = [op |-> "submit", symbol |-> symbol, order |-> Null, reports |-> <<>>, passives |-> <<>>, levels |-> <<>>]
       /\ UNCHANGED <<config_, order_pool_, execution_queue_, total_matches_, running_, assert_failed, reported, queue_symbol, consumer_report, popped>>

\* submit_order that returns at once unless the engine is running.
submit_order_running(symbol, order_id, timestamp, price, quantity, side, type) ==
  IF running_
  THEN submit_order_during(symbol, order_id, timestamp, price, quantity, side, type, {})
  ELSE UNCHANGED <<config_, order_pool_, pool_index_, books_, execution_queue_, total_orders_, total_matches_, running_, assert_failed, last, reported, queue_symbol, consumer_report, popped>>

\* submit_order with no pop by the consumer during the call.
submit_order(symbol, order_id, timestamp, price, quantity, side, type) ==
  submit_order_during(symbol, order_id, timestamp, price, quantity, side, type, {})

\* cancel_order looking the book up with books_[symbol], which inserts one.
cancel_order_creating(symbol, order_id) ==
  LET book == IF get_book(symbol) = NoBook THEN OrderBook ELSE books_[symbol]
      done(x) == /\ order_pool_' = x.o
                 /\ books_' = Put(books_, symbol, x.b)
                 /\ assert_failed' = x.af
  IN  /\ done(OrderBook_cancel_order(Mem(order_pool_, book, assert_failed), order_id))
      /\ last' = NoCall
      /\ UNCHANGED <<config_, pool_index_, execution_queue_, total_orders_, total_matches_, running_, reported, queue_symbol, consumer_report, popped>>

\* cancel_order giving the slot back by moving the pool cursor back.
cancel_order_reclaiming(symbol, order_id) ==
  LET done(x) == /\ order_pool_' = x.o
                 /\ books_' = [books_ EXCEPT ![symbol] = x.b]
                 /\ assert_failed' = x.af
                 /\ pool_index_' = IF order_id \in DOMAIN books_[symbol].orders_ /\ pool_index_ > 0 THEN pool_index_ - 1 ELSE pool_index_
  IN  /\ IF get_book(symbol) # NoBook
         THEN done(OrderBook_cancel_order(Mem(order_pool_, books_[symbol], assert_failed), order_id))
         ELSE UNCHANGED <<order_pool_, books_, assert_failed, pool_index_>>
      /\ last' = NoCall
      /\ UNCHANGED <<config_, execution_queue_, total_orders_, total_matches_, running_, reported, queue_symbol, consumer_report, popped>>

\* cancel_order that, when the named book does not hold the id, cancels it
\* in a book that does.
cancel_order_any_book(symbol, order_id) ==
  LET holders == {s \in DOMAIN books_ : order_id \in DOMAIN books_[s].orders_}
      target == IF symbol \in holders \/ holders = {} THEN symbol ELSE CHOOSE s \in holders : TRUE
      done(x) == /\ order_pool_' = x.o
                 /\ books_' = [books_ EXCEPT ![target] = x.b]
                 /\ assert_failed' = x.af
  IN  /\ IF get_book(target) # NoBook
         THEN done(OrderBook_cancel_order(Mem(order_pool_, books_[target], assert_failed), order_id))
         ELSE UNCHANGED <<order_pool_, books_, assert_failed>>
      /\ last' = NoCall
      /\ UNCHANGED <<config_, pool_index_, execution_queue_, total_orders_, total_matches_, running_, reported, queue_symbol, consumer_report, popped>>

cancel_order(symbol, order_id) ==
  LET done(x) == /\ order_pool_' = x.o
                 /\ books_' = [books_ EXCEPT ![symbol] = x.b]
                 /\ assert_failed' = x.af
  IN  /\ IF get_book(symbol) # NoBook
         THEN done(OrderBook_cancel_order(Mem(order_pool_, books_[symbol], assert_failed), order_id))
         ELSE UNCHANGED <<order_pool_, books_, assert_failed>>
      /\ last' = NoCall
      /\ UNCHANGED <<config_, pool_index_, execution_queue_, total_orders_, total_matches_, running_, reported, queue_symbol, consumer_report, popped>>

modify_order(symbol, order_id, new_quantity) ==
  LET done(x) == /\ order_pool_' = x.o
                 /\ books_' = [books_ EXCEPT ![symbol] = x.b]
                 /\ assert_failed' = x.af
  IN  /\ IF get_book(symbol) # NoBook
         THEN done(OrderBook_modify_order(Mem(order_pool_, books_[symbol], assert_failed), order_id, new_quantity))
         ELSE UNCHANGED <<order_pool_, books_, assert_failed>>
      /\ last' = NoCall
      /\ UNCHANGED <<config_, pool_index_, execution_queue_, total_orders_, total_matches_, running_, reported, queue_symbol, consumer_report, popped>>

\* ------------------------------------------------------------------ the driver

\* MatchingEngine::start(), stop() and is_running().
start ==
  /\ running_' = TRUE
  /\ UNCHANGED <<config_, order_pool_, pool_index_, books_, execution_queue_, total_orders_, total_matches_, assert_failed, last, reported, queue_symbol, consumer_report, popped>>

stop ==
  /\ running_' = FALSE
  /\ UNCHANGED <<config_, order_pool_, pool_index_, books_, execution_queue_, total_orders_, total_matches_, assert_failed, last, reported, queue_symbol, consumer_report, popped>>

is_running == running_

\* The producer numbers the orders of a symbol 1, 2, 3, ... (unique ids), passes
\* price 0 with a MARKET order, and stops submitting once the pool is used up.
Submit(symbol, timestamp, price, quantity, side, type) ==
  /\ pool_index_ < config_.order_pool_size
  /\ submit_order(symbol, next_order_id[symbol], timestamp, price, quantity, side, type)
  /\ next_order_id' = [next_order_id EXCEPT ![symbol] = @ + 1]

\* The same while the consumer thread pops before the pushes in pops.
SubmitDuring(symbol, timestamp, price, quantity, side, type, pops) ==
  /\ pool_index_ < config_.order_pool_size
  /\ submit_order_during(symbol, next_order_id[symbol], timestamp, price, quantity, side, type, pops)
  /\ next_order_id' = [next_order_id EXCEPT ![symbol] = @ + 1]

\* ------------------------------------------------------------------ Spec
\* One symbol, every operation, both sides; at most MaxModifies calls of
\* modify_order in a run.

Init == MatchingEngine(PoolSize)

SubmitLimit ==
  \E symbol \in Symbols, timestamp \in Timestamps, price \in 1..MaxPrice, quantity \in 1..MaxQty, side \in {BUY, SELL} :
    /\ Submit(symbol, timestamp, price, quantity, side, LIMIT)
    /\ UNCHANGED <<modify_calls, pusher, popper>>

SubmitMarket ==
  \E symbol \in Symbols, timestamp \in Timestamps, quantity \in 1..MaxQty, side \in {BUY, SELL} :
    /\ Submit(symbol, timestamp, 0, quantity, side, MARKET)
    /\ UNCHANGED <<modify_calls, pusher, popper>>

Cancel ==
  \E symbol \in Symbols, order_id \in 1..PoolSize :
    /\ cancel_order(symbol, order_id)
    /\ UNCHANGED <<next_order_id, modify_calls, pusher, popper>>

Modify ==
  \E symbol \in Symbols, order_id \in 1..PoolSize, new_quantity \in 0..MaxQty :
    /\ modify_calls < MaxModifies
    /\ modify_order(symbol, order_id, new_quantity)
    /\ modify_calls' = modify_calls + 1
    /\ UNCHANGED <<next_order_id, pusher, popper>>

Next == SubmitLimit \/ SubmitMarket \/ Cancel \/ Modify

Spec == Init /\ [][Next]_vars

\* ------------------------------------------------------------------ SpecQueue
\* Two symbols, one price; the producer thread submits BUY LIMIT orders of
\* quantity 1 and SELL LIMIT orders of quantity QueueQty, the consumer thread
\* pops reports between and during the producer's calls.

InitQueue == MatchingEngine(QueuePoolSize)

QueueBuy ==
  \E symbol \in AllSymbols, timestamp \in Timestamps :
    /\ Submit(symbol, timestamp, 1, 1, BUY, LIMIT)
    /\ UNCHANGED <<modify_calls, pusher, popper>>

QueueSell ==
  \E symbol \in AllSymbols, timestamp \in Timestamps, pops \in SUBSET (1..QueuePops) :
    /\ SubmitDuring(symbol, timestamp, 1, QueueQty, SELL, LIMIT, pops)
    /\ UNCHANGED <<modify_calls, pusher, popper>>

QueuePop ==
  /\ execution_queue_' = consume(Consumer).q
  /\ consumer_report' = consume(Consumer).item
  /\ popped' = consume(Consumer).popped
  /\ UNCHANGED <<config_, order_pool_, pool_index_, books_, total_orders_, total_matches_, running_, assert_failed, next_order_id, modify_calls, last, reported, queue_symbol, pusher, popper>>

NextQueue == QueueBuy \/ QueueSell \/ QueuePop

SpecQueue == InitQueue /\ [][NextQueue]_vars

\* ------------------------------------------------------------------ SpecPool
\* Two symbols and a small pool; the producer goes on submitting after the
\* pool is used up (PoolExtra more calls), with quantities from 0 on.

\* A submit_order under the symbol's next id, whether or not a slot is left.
SubmitAny(symbol, timestamp, price, quantity, side, type) ==
  /\ pool_index_ < config_.order_pool_size + PoolExtra
  /\ submit_order(symbol, next_order_id[symbol], timestamp, price, quantity, side, type)
  /\ next_order_id' = [next_order_id EXCEPT ![symbol] = @ + 1]

InitPool == MatchingEngine(PoolPoolSize)

PoolSubmitLimit ==
  \E symbol \in AllSymbols, timestamp \in Timestamps, price \in 1..PoolMaxPrice, quantity \in 0..PoolMaxQty, side \in {BUY, SELL} :
    /\ SubmitAny(symbol, timestamp, price, quantity, side, LIMIT)
    /\ UNCHANGED <<modify_calls, pusher, popper>>

PoolSubmitMarket ==
  \E symbol \in AllSymbols, timestamp \in Timestamps, quantity \in 0..PoolMaxQty, side \in {BUY, SELL} :
    /\ SubmitAny(symbol, timestamp, 0, quantity, side, MARKET)
    /\ UNCHANGED <<modify_calls, pusher, popper>>

PoolCancel ==
  \E symbol \in AllSymbols, order_id \in 1..PoolPoolSize :
    /\ cancel_order(symbol, order_id)
    /\ UNCHANGED <<next_order_id, modify_calls, pusher, popper>>

NextPool == PoolSubmitLimit \/ PoolSubmitMarket \/ PoolCancel

SpecPool == InitPool /\ [][NextPool]_vars

\* ------------------------------------------------------------------ SpecSweep
\* One symbol; sellers rest unit LIMIT orders, buyers send LIMIT orders of
\* MaxQty, any resting order may be cancelled.

InitSweep == MatchingEngine(SweepPoolSize)

SweepSell ==
  \E symbol \in Symbols, timestamp \in Timestamps, price \in 1..SweepMaxPrice :
    /\ Submit(symbol, timestamp, price, 1, SELL, LIMIT)
    /\ UNCHANGED <<modify_calls, pusher, popper>>

SweepBuy ==
  \E symbol \in Symbols, timestamp \in Timestamps, price \in 1..SweepMaxPrice :
    /\ Submit(symbol, timestamp, price, MaxQty, BUY, LIMIT)
    /\ UNCHANGED <<modify_calls, pusher, popper>>

SweepCancel ==
  \E symbol \in Symbols, order_id \in 1..SweepPoolSize :
    /\ cancel_order(symbol, order_id)
    /\ UNCHANGED <<next_order_id, modify_calls, pusher, popper>>

NextSweep == SweepSell \/ SweepBuy \/ SweepCancel

SpecSweep == InitSweep /\ [][NextSweep]_vars

\* ------------------------------------------------------------------ SpecDeep
\* One symbol; sellers rest unit LIMIT orders in all slots of the pool but the
\* last, which goes to one BUY LIMIT order of MaxQty at the top price; the
\* first DeepCancelIds orders may be cancelled.

InitDeep == MatchingEngine(DeepPoolSize)

DeepSell ==
  \E symbol \in Symbols, timestamp \in Timestamps, price \in 1..DeepMaxPrice :
    /\ pool_index_ < DeepPoolSize - 1
    /\ Submit(symbol, timestamp, price, 1, SELL, LIMIT)
    /\ UNCHANGED <<modify_calls, pusher, popper>>

DeepBuy ==
  \E symbol \in Symbols, timestamp \in Timestamps :
    /\ pool_index_ = DeepPoolSize - 1
    /\ Submit(symbol, timestamp, DeepMaxPrice, MaxQty, BUY, LIMIT)
    /\ UNCHANGED <<modify_calls, pusher, popper>>

DeepCancel ==
  \E symbol \in Symbols, order_id \in 1..DeepCancelIds :
    /\ cancel_order(symbol, order_id)
    /\ UNCHANGED <<next_order_id, modify_calls, pusher, popper>>

NextDeep == DeepSell \/ DeepBuy \/ DeepCancel

SpecDeep == InitDeep /\ [][NextDeep]_vars

\* ------------------------------------------------------------------ SpecRun
\* One symbol and a small pool; start() and stop() are called at any time
\* between the order operations.

InitRun == MatchingEngine(RunPoolSize)

RunStart ==
  /\ start
  /\ UNCHANGED <<next_order_id, modify_calls, pusher, popper>>

RunStop ==
  /\ stop
  /\ UNCHANGED <<next_order_id, modify_calls, pusher, popper>>

RunSubmitLimit ==
  \E symbol \in Symbols, timestamp \in Timestamps, price \in 1..RunMaxPrice, quantity \in 1..MaxQty, side \in {BUY, SELL} :
    /\ Submit(symbol, timestamp, price, quantity, side, LIMIT)
    /\ UNCHANGED <<modify_calls, pusher, popper>>

RunSubmitMarket ==
  \E symbol \in Symbols, timestamp \in Timestamps, quantity \in 1..MaxQty, side \in {BUY, SELL} :
    /\ Submit(symbol, timestamp, 0, quantity, side, MARKET)
    /\ UNCHANGED <<modify_calls, pusher, popper>>

RunCancel ==
  \E symbol \in Symbols, order_id \in 1..RunPoolSize :
    /\ cancel_order(symbol, order_id)
    /\ UNCHANGED <<next_order_id, modify_calls, pusher, popper>>

RunModify ==
  \E symbol \in Symbols, order_id \in 1..RunPoolSize, new_quantity \in 0..MaxQty :
    /\ modify_calls < MaxModifies
    /\ modify_order(symbol, order_id, new_quantity)
    /\ modify_calls' = modify_calls + 1
    /\ UNCHANGED <<next_order_id, pusher, popper>>

NextRun == RunStart \/ RunStop \/ RunSubmitLimit \/ RunSubmitMarket \/ RunCancel \/ RunModify

SpecRun == InitRun /\ [][NextRun]_vars

\* ------------------------------------------------------------------ SpecPair
\* Two symbols with their own order ids from 1 on, LIMIT orders on both
\* sides, cancels and at most MaxModifies calls of modify_order.

InitPair == MatchingEngine(PairPoolSize)

PairSubmit ==
  \E symbol \in AllSymbols, timestamp \in Timestamps, price \in 1..PairMaxPrice, quantity \in 1..MaxQty, side \in {BUY, SELL} :
    /\ Submit(symbol, timestamp, price, quantity, side, LIMIT)
    /\ UNCHANGED <<modify_calls, pusher, popper>>

PairCancel ==
  \E symbol \in AllSymbols, order_id \in 1..PairPoolSize :
    /\ cancel_order(symbol, order_id)
    /\ UNCHANGED <<next_order_id, modify_calls, pusher, popper>>

PairModify ==
  \E symbol \in AllSymbols, order_id \in 1..PairPoolSize, new_quantity \in 1..MaxQty :
    /\ modify_calls < MaxModifies
    /\ modify_order(symbol, order_id, new_quantity)
    /\ modify_calls' = modify_calls + 1
    /\ UNCHANGED <<next_order_id, pusher, popper>>

NextPair == PairSubmit \/ PairCancel \/ PairModify

SpecPair == InitPair /\ [][NextPair]_vars

\* ------------------------------------------------------------------ SpecRing
\* The execution queue alone, one statement of push or pop at a time: the
\* producer thread calls push RingPushes times with the reports of the test
\* SPSCQueuePerformance, the consumer thread calls pop again and again.  A
\* thread loads the index it owns as it last stored it; its acquire load of
\* the other thread's index yields the value of any store made since the one
\* it observed last.  An access to a buffer_ entry that the other thread is
\* about to access too is a data race: the read then yields any item.

\* ExecutionReport report(i, i, get_timestamp_ns(), 100000, 100, Side::BUY, true).
TestReport(i) == ExecutionReport(i, i, 1000, 100000, 100, BUY, TRUE)

RingFrame == UNCHANGED <<config_, order_pool_, pool_index_, books_, total_orders_, total_matches_, running_, assert_failed, next_order_id, modify_calls, last, reported, queue_symbol, popped>>

InitRing == MatchingEngine(PoolSize)

\* push: head = head_.load(relaxed); next_head = head + 1, not masked.
PushLoadHeadUnmasked ==
  /\ pusher.pc = "idle"
  /\ pusher.calls < RingPushes
  /\ pusher' = [pusher EXCEPT !.pc = "load_tail", !.head = execution_queue_.head_, !.next_head = execution_queue_.head_ + 1, !.item = TestReport(pusher.calls + 1), !.calls = @ + 1]
  /\ UNCHANGED <<execution_queue_, consumer_report, popper>>
  /\ RingFrame

\* push: head = head_.load(relaxed); next_head = (head + 1) & (Capacity - 1).
PushLoadHead ==
  /\ pusher.pc = "idle"
  /\ pusher.calls < RingPushes
  /\ pusher' = [pusher EXCEPT !.pc = "load_tail", !.head = execution_queue_.head_, !.next_head = (execution_queue_.head_ + 1) % Capacity, !.item = TestReport(pusher.calls + 1), !.calls = @ + 1]
  /\ UNCHANGED <<execution_queue_, consumer_report, popper>>
  /\ RingFrame

\* push without the test for a full queue.
PushLoadTailUnchecked ==
  /\ pusher.pc = "load_tail"
  /\ \E n \in pusher.tail_seen..Len(popper.returned) :
       pusher' = [pusher EXCEPT !.pc = "write", !.tail_seen = n]
  /\ UNCHANGED <<execution_queue_, consumer_report, popper>>
  /\ RingFrame

\* push: if (next_head == tail_.load(acquire)) return false.
PushLoadTail ==
  /\ pusher.pc = "load_tail"
  /\ \E n \in pusher.tail_seen..Len(popper.returned) :
       IF pusher.next_head = n % Capacity
       THEN pusher' = [pusher EXCEPT !.pc = "idle", !.tail_seen = n, !.results = Append(@, FALSE)]
       ELSE pusher' = [pusher EXCEPT !.pc = "write", !.tail_seen = n]
  /\ UNCHANGED <<execution_queue_, consumer_report, popper>>
  /\ RingFrame

\* push: buffer_[head] = item.
PushWrite ==
  /\ pusher.pc = "write"
  /\ execution_queue_' = [execution_queue_ EXCEPT !.buffer_[pusher.head] = pusher.item]
  /\ pusher' = [pusher EXCEPT !.pc = "store_head"]
  /\ UNCHANGED <<consumer_report, popper>>
  /\ RingFrame

\* push: head_.store(next_head, release); return true.
PushStoreHead ==
  /\ pusher.pc = "store_head"
  /\ execution_queue_' = [execution_queue_ EXCEPT !.head_ = pusher.next_head]
  /\ pusher' = [pusher EXCEPT !.pc = "idle", !.results = Append(@, TRUE), !.accepted = Append(@, pusher.item)]
  /\ UNCHANGED <<consumer_report, popper>>
  /\ RingFrame

\* pop: tail = tail_.load(relaxed).
PopLoadTail ==
  /\ popper.pc = "idle"
  /\ popper' = [popper EXCEPT !.pc = "load_head", !.tail = execution_queue_.tail_]
  /\ UNCHANGED <<execution_queue_, consumer_report, pusher>>
  /\ RingFrame

\* pop: if (tail == head_.load(acquire)) return false.
PopLoadHead ==
  /\ popper.pc = "load_head"
  /\ \E n \in popper.head_seen..Len(pusher.accepted) :
       IF popper.tail = n % Capacity
       THEN popper' = [popper EXCEPT !.pc = "idle", !.head_seen = n]
       ELSE popper' = [popper EXCEPT !.pc = "read", !.head_seen = n]
  /\ UNCHANGED <<execution_queue_, consumer_report, pusher>>
  /\ RingFrame

\* pop: item = buffer_[tail]; any item when the producer is at its write of
\* the same entry.
PopRead ==
  /\ popper.pc = "read"
  /\ IF pusher.pc = "write" /\ pusher.head = popper.tail
     THEN consumer_report' \in {Uninit} \cup {TestReport(i) : i \in 1..RingPushes}
     ELSE consumer_report' = execution_queue_.buffer_[popper.tail]
  /\ popper' = [popper EXCEPT !.pc = "store_tail"]
  /\ UNCHANGED <<execution_queue_, pusher>>
  /\ RingFrame

\* pop: tail_.store((tail + 1) & (Capacity - 1), release); return true.
PopStoreTail ==
  /\ popper.pc = "store_tail"
  /\ execution_queue_' = [execution_queue_ EXCEPT !.tail_ = (popper.tail + 1) % Capacity]
  /\ popper' = [popper EXCEPT !.pc = "idle", !.returned = Append(@, consumer_report)]
  /\ UNCHANGED <<consumer_report, pusher>>
  /\ RingFrame

NextRing == PushLoadHead \/ PushLoadTail \/ PushWrite \/ PushStoreHead \/ PopLoadTail \/ PopLoadHead \/ PopRead \/ PopStoreTail

SpecRing == InitRing /\ [][NextRing]_vars

\* ------------------------------------------------------------------ observers
\* What the properties read off a state.

\* The nodes reachable from the nodes of frontier over left and right links.
RECURSIVE Reach(_, _, _)
Reach(b, frontier, seen) ==
  IF frontier = {} THEN seen
  ELSE LET kids == {b.price_level_pool_[n].left : n \in frontier} \cup {b.price_level_pool_[n].right : n \in frontier}
       IN  Reach(b, (kids \ {Null}) \ (seen \cup frontier), seen \cup frontier)

\* The levels present in the index of a side.
Index(b, side) ==
  LET root == IF side = BUY THEN b.bid_tree_root_ ELSE b.ask_tree_root_
  IN  IF root = Null THEN {} ELSE Reach(b, {root}, {})

\* The FIFO of a level: the orders from x on over next links (at most fuel of them).
RECURSIVE Chain(_, _)
Chain(x, fuel) ==
  IF x = Null \/ fuel = 0 THEN <<>> ELSE <<x>> \o Chain(order_pool_[x].next, fuel - 1)

Fifo(b, level) == Chain(b.price_level_pool_[level].head_order, config_.order_pool_size + 1)

RECURSIVE SumRemaining(_)
SumRemaining(q) == IF q = <<>> THEN 0 ELSE order_pool_[Head(q)].remaining_quantity + SumRemaining(Tail(q))

RECURSIVE SumVolume(_, _)
SumVolume(b, levels) ==
  IF levels = {} THEN 0
  ELSE LET l == CHOOSE x \in levels : TRUE
       IN  b.price_level_pool_[l].total_volume + SumVolume(b, levels \ {l})

\* The resting orders of a book (the id -> order map) and those of one side.
Resting(b) == {b.orders_[id] : id \in DOMAIN b.orders_}

RestingSide(b, side) == {x \in Resting(b) : order_pool_[x].side = side}

Books == {books_[s] : s \in DOMAIN books_}

\* The call just made was a submit_order that obtained a slot.
Submitted == last.op = "submit" /\ last.order # Null

\* ------------------------------------------------------------------ properties

\* Price p is strictly better than q for an aggressor of the given side
\* (a lower ask for a buy, a higher bid for a sell).
BetterFor(side, p, q) == IF side = BUY THEN ULess(p, q) ELSE ULess(q, p)

\* C1.  Price priority across levels: the fills of one aggressor go from the
\* best contra price outward (their prices never improve from one report to
\* the next), and no fill is made at a price P while a contra order with
\* remaining quantity rests at a strictly better price.
C1_PricePriority ==
  Submitted =>
    LET b == books_[last.symbol]
        side == order_pool_[last.order].side
        n == Len(last.reports)
    IN  /\ \A i, j \in 1..n : i < j => ~BetterFor(side, last.reports[j].price, last.reports[i].price)
        /\ \A i \in 1..n : \A x \in RestingSide(b, Contra(side)) :
             order_pool_[x].remaining_quantity # 0 => ~BetterFor(side, order_pool_[x].price, last.reports[i].price)

\* C2.  Matching continues until crossing ends: when submit_order returns for
\* a LIMIT order, the order is fully filled or no resting contra order has a
\* price that crosses its limit (equality included).
C2_MatchUntilUncrossed ==
  (Submitted /\ order_pool_[last.order].type = LIMIT) =>
    LET b == books_[last.symbol]
        agg == order_pool_[last.order]
    IN  \/ agg.remaining_quantity = 0
        \/ \A x \in RestingSide(b, Contra(agg.side)) : BetterFor(agg.side, agg.price, order_pool_[x].price)

\* C3.  When both best pointers are non-null, best_ask.price >= best_bid.price,
\* so that get_spread does not wrap around.
C3_SpreadNonNegative ==
  \A b \in Books :
    (b.best_bid_ # Null /\ b.best_ask_ # Null) =>
       /\ ~ULess(b.price_level_pool_[b.best_ask_].price, b.price_level_pool_[b.best_bid_].price)
       /\ get_spread(b) >= 0

\* The price of the level the best pointer of a side designates is the price
\* of a resting order of that side, and no resting order of that side has a
\* better one (higher for bids, lower for asks).
BestIsExtreme(b, side) ==
  LET best == IF side = BUY THEN b.best_bid_ ELSE b.best_ask_
  IN  best # Null =>
        /\ \E x \in RestingSide(b, side) : order_pool_[x].price = b.price_level_pool_[best].price
        /\ \A x \in RestingSide(b, side) : ~BetterFor(Contra(side), order_pool_[x].price, b.price_level_pool_[best].price)

\* C4.  best_bid (when non-null) is the bid level with the maximum price among
\* the bid levels holding resting orders, best_ask (when non-null) the ask
\* level with the minimum price among the ask levels holding resting orders.
C4_BestIsExtreme == \A b \in Books : BestIsExtreme(b, BUY) /\ BestIsExtreme(b, SELL)

\* C5.  A side's best pointer is null exactly when that side has no resting order.
C5_BestNullIffEmpty ==
  \A b \in Books :
    /\ (b.best_bid_ = Null) <=> (RestingSide(b, BUY) = {})
    /\ (b.best_ask_ = Null) <=> (RestingSide(b, SELL) = {})

\* C6.  get_total_bid_volume is the sum of total_volume over all bid levels of
\* the index, get_total_ask_volume the sum over all ask levels.
C6_TotalVolume ==
  \A b \in Books :
    /\ get_total_bid_volume(b) = SumVolume(b, Index(b, BUY))
    /\ get_total_ask_volume(b) = SumVolume(b, Index(b, SELL))

\* C7.  Every level present in an index has total_volume = the sum of the
\* remaining quantities of the orders of its FIFO, and order_count = the
\* length of its FIFO.
C7_LevelAccounting ==
  \A b \in Books : \A l \in Index(b, BUY) \cup Index(b, SELL) :
    /\ b.price_level_pool_[l].total_volume = SumRemaining(Fifo(b, l))
    /\ b.price_level_pool_[l].order_count = Len(Fifo(b, l))

\* C8.  For every order of the id map, the level back-pointer designates a
\* level whose FIFO contains the order, that level is in the index of the
\* order's side, and its price is the order's price.
C8_BackPointer ==
  \A b \in Books : \A x \in Resting(b) :
    LET l == order_pool_[x].parent_level
    IN  /\ l # Null
        /\ l \in Index(b, order_pool_[x].side)
        /\ \E i \in 1..Len(Fifo(b, l)) : Fifo(b, l)[i] = x
        /\ b.price_level_pool_[l].price = order_pool_[x].price

\* C9.  No two levels of an index have the same price, and every level of an
\* index is non-empty: its order_count is > 0 and its FIFO holds an order of
\* the id map (a level leaves the index when its last order is cancelled or
\* filled).
C9_DistinctNonEmptyLevels ==
  \A b \in Books : \A side \in {BUY, SELL} :
    /\ \A l1, l2 \in Index(b, side) : b.price_level_pool_[l1].price = b.price_level_pool_[l2].price => l1 = l2
    /\ \A l \in Index(b, side) :
         /\ ULess(0, b.price_level_pool_[l].order_count)
         /\ \E i \in 1..Len(Fifo(b, l)) : Fifo(b, l)[i] \in Resting(b)

\* C10.  Time priority within a level: the orders of one price are filled in
\* the order in which they were added to the level (the order of their pool
\* slots), and none is filled while an order added earlier at that price
\* still rests with remaining quantity.
C10_TimePriority ==
  Submitted =>
    LET b == books_[last.symbol]
        n == Len(last.passives)
    IN  /\ \A i, j \in 1..n : (i < j /\ order_pool_[last.passives[i]].price = order_pool_[last.passives[j]].price) => last.passives[i] < last.passives[j]
        /\ \A i \in 1..n : \A x \in RestingSide(b, order_pool_[last.passives[i]].side) :
             (order_pool_[x].price = order_pool_[last.passives[i]].price /\ order_pool_[x].remaining_quantity # 0) => ~(x < last.passives[i])

\* C11.  Each fill emits exactly one execution report; its order_id, timestamp
\* and side are the aggressor's, and its price is the price of the level the
\* passive order was filled at (not the aggressor's limit price).
C11_ReportFields ==
  Submitted =>
    LET agg == order_pool_[last.order]
        n == Len(last.reports)
    IN  /\ Len(last.passives) = n
        /\ \A i \in 1..n :
             /\ last.reports[i].order_id = agg.order_id
             /\ last.reports[i].timestamp = agg.timestamp
             /\ last.reports[i].side = agg.side
             /\ last.reports[i].price = last.levels[i]
             /\ last.reports[i].price = order_pool_[last.passives[i]].price

\* A LIMIT aggressor was filled at a price other than its limit.
C11_Witness ==
  /\ Submitted
  /\ order_pool_[last.order].type = LIMIT
  /\ \E i \in 1..Len(last.reports) : last.reports[i].price # order_pool_[last.order].price

\* The sum of executed_quantity over the first i reports.
RECURSIVE SumExecuted(_, _)
SumExecuted(reports, i) == IF i = 0 THEN 0 ELSE reports[i].executed_quantity + SumExecuted(reports, i - 1)

\* C12.  is_full_fill of a report is true exactly when its fill brings the
\* aggressor's remaining quantity to 0; at most one report of an aggressor
\* has it, the last one.
C12_FullFillFlag ==
  Submitted =>
    LET agg == order_pool_[last.order]
        n == Len(last.reports)
    IN  \A i \in 1..n :
          /\ last.reports[i].is_full_fill <=> (agg.quantity - SumExecuted(last.reports, i) = 0)
          /\ last.reports[i].is_full_fill => i = n

\* An aggressor was filled in several reports, only the last with is_full_fill.
C12_Witness ==
  /\ Submitted
  /\ Len(last.reports) >= 2
  /\ last.reports[Len(last.reports)].is_full_fill
  /\ ~last.reports[1].is_full_fill

\* The order a reported entry stands for.
ReportedOrder(key) == order_pool_[reported[key].order]

\* C13 as stated.  Without any modify_order: for every submitted order the
\* executed quantities of the reports carrying its order_id sum to at most
\* its quantity, to exactly its quantity iff its remaining quantity is 0, and
\* then the last of those reports has is_full_fill.
C13_ReportSum ==
  modify_calls = 0 =>
    \A key \in DOMAIN reported :
      /\ reported[key].sum <= ReportedOrder(key).quantity
      /\ reported[key].sum = ReportedOrder(key).quantity <=> ReportedOrder(key).remaining_quantity = 0
      /\ ReportedOrder(key).remaining_quantity = 0 => reported[key].full

\* C13, amended.  The reports carrying an order's id are those of its own
\* matching pass: at the return of its submit_order their executed
\* quantities sum to its quantity minus its remaining quantity, hence to at
\* most its quantity and to exactly its quantity iff that pass filled it
\* completely, and then the last of them has is_full_fill; no later step
\* adds a report carrying its id.
C13_AggressorReportSum ==
  [][/\ \A key \in DOMAIN reported : key \in DOMAIN reported' /\ reported'[key] = reported[key]
     /\ (pool_index_' # pool_index_ /\ last'.order # Null) =>
          LET o == order_pool_'[last'.order]
              r == reported'[<<last'.symbol, o.order_id>>]
          IN  /\ r.order = last'.order
              /\ r.sum = o.quantity - o.remaining_quantity
              /\ r.sum <= o.quantity
              /\ r.sum = o.quantity <=> o.remaining_quantity = 0
              /\ o.remaining_quantity = 0 => r.full
              /\ r.full => o.remaining_quantity = 0]_vars

\* One order was filled completely by its own pass in two reports, and
\* another, which rested, was filled completely later without any report
\* carrying its id.
C13_Witness ==
  /\ modify_calls = 0
  /\ Submitted
  /\ Len(last.reports) = 2
  /\ \E key \in DOMAIN reported :
       /\ reported[key].order = last.order
       /\ reported[key].sum = ReportedOrder(key).quantity
       /\ reported[key].full
  /\ \E key \in DOMAIN reported :
       /\ reported[key].sum = 0
       /\ ReportedOrder(key).remaining_quantity = 0

\* OrderBook::get_match_count() of the book of symbol, 0 for a book that
\* does not exist yet (its constructor sets match_count_ to 0).
get_match_count(books, symbol) == IF symbol \in DOMAIN books THEN books[symbol].match_count_ ELSE 0

\* OrderBook::get_order_count() of the book of symbol, 0 for a book that does
\* not exist yet.
get_order_count(books, symbol) == IF symbol \in DOMAIN books THEN books[symbol].order_count_ ELSE 0

\* C14.  A book's match_count starts at 0; a submit_order with n fills on the
\* book raises it by n, its i-th report carrying the old count plus i as
\* match_id; no other step changes it.
C14_MatchCount ==
  [][\A s \in AllSymbols :
       IF pool_index_' # pool_index_ /\ last'.symbol = s
       THEN /\ get_match_count(books_', s) = get_match_count(books_, s) + Len(last'.reports)
            /\ \A i \in 1..Len(last'.reports) : last'.reports[i].match_id = get_match_count(books_, s) + i
       ELSE get_match_count(books_', s) = get_match_count(books_, s)]_vars

\* The second aggressor on a book got the match_id 2 for its fill.
C14_Witness ==
  /\ Submitted
  /\ Len(last.reports) = 1
  /\ last.reports[1].match_id = 2
  /\ get_match_count(books_, last.symbol) = 2

\* The match_ids of the reports of symbol's book in buffer_, from entry i on
\* for n entries.
RECURSIVE QueuedIds(_, _, _)
QueuedIds(symbol, i, n) ==
  IF n = 0 THEN <<>>
  ELSE (IF queue_symbol[i] = symbol THEN <<execution_queue_.buffer_[i].match_id>> ELSE <<>>)
       \o QueuedIds(symbol, (i + 1) % Capacity, n - 1)

\* size() of the execution queue.
QueueSize == (execution_queue_.head_ - execution_queue_.tail_) % Capacity

\* The match_ids of symbol's book the consumer popped, followed by those it
\* will pop from the entries now queued.
Delivered(symbol) == popped[symbol] \o QueuedIds(symbol, execution_queue_.tail_, QueueSize)

\* The number of reports generated that were not pushed (the queue was full).
Dropped == LET RECURSIVE Count(_)
               Count(S) == IF S = {} THEN 0
                           ELSE LET s == CHOOSE x \in S : TRUE
                                IN  get_match_count(books_, s) + Count(S \ {s})
           IN  Count(AllSymbols) - total_matches_

\* C15.  For each book, the match_ids the consumer popped and those still
\* queued, in queue order, form a strictly increasing sequence: reports are
\* queued in the order the fills were made, whether or not reports were
\* dropped.
C15_PoppedIncreasing ==
  \A s \in AllSymbols :
    \A i \in 1..(Len(Delivered(s)) - 1) : Delivered(s)[i] < Delivered(s)[i + 1]

\* The consumer popped, for one book, a report generated after a dropped one:
\* the popped match_ids skip a value.
C15_Witness ==
  /\ Dropped > 0
  /\ \E s \in AllSymbols :
       \E i \in 1..(Len(popped[s]) - 1) : popped[s][i + 1] > popped[s][i] + 1

\* order is in the FIFO of a level present in the index of b.
InFifo(b, order) ==
  \E side \in {BUY, SELL} : \E l \in Index(b, side) :
    \E i \in 1..Len(Fifo(b, l)) : Fifo(b, l)[i] = order

\* No level present in the index of b has an empty FIFO.
NoEmptyLevel(b) == \A side \in {BUY, SELL} : \A l \in Index(b, side) : Fifo(b, l) # <<>>

\* C16.  modify_order(id, 0) on a resting order acts as a cancel: after the
\* step the id is not in the id map, the order is in no FIFO, order_count is
\* one less and no level of the index is left empty.
C16_ModifyZeroCancels ==
  [][\A s \in DOMAIN books_ : \A id \in DOMAIN books_[s].orders_ :
       (modify_calls' # modify_calls /\ modify_order(s, id, 0)) =>
         /\ id \notin DOMAIN books_'[s].orders_
         /\ books_'[s].order_count_ = books_[s].order_count_ - 1
         /\ \A order \in 1..config_.order_pool_size :
              order = books_[s].orders_[id] => ~(InFifo(books_[s], order))'
         /\ NoEmptyLevel(books_[s])']_vars

\* C17.  modify_order(id, q) with q > 0 on a resting order sets the order's
\* remaining_quantity to q and adds q minus the old remaining quantity to the
\* total_volume of the level of the index whose FIFO holds the order; no
\* other field of any order, level or book and no queue entry or counter
\* changes.
C17_ModifyFrame ==
  [][\A s \in DOMAIN books_ : \A id \in DOMAIN books_[s].orders_ : \A q \in 1..MaxQty :
       (modify_calls' # modify_calls /\ modify_order(s, id, q)) =>
         \E order \in 1..config_.order_pool_size :
           /\ order = books_[s].orders_[id]
           /\ order_pool_' = [order_pool_ EXCEPT ![order].remaining_quantity = q]
           /\ \E l \in Index(books_[s], order_pool_[order].side) :
                /\ \E i \in 1..Len(Fifo(books_[s], l)) : Fifo(books_[s], l)[i] = order
                /\ books_' = [books_ EXCEPT ![s].price_level_pool_[l].total_volume = @ + q - order_pool_[order].remaining_quantity]
           /\ UNCHANGED <<config_, pool_index_, execution_queue_, total_orders_, total_matches_, running_>>]_vars

\* C18.  Every order handed out by the pool has remaining_quantity at most
\* its original quantity.
C18_RemainingBounded ==
  \A order \in 1..StdMin(pool_index_, config_.order_pool_size) :
    ~ULess(order_pool_[order].quantity, order_pool_[order].remaining_quantity)

\* order_id is not resting in the book of symbol, or symbol has no book.
NotResting(symbol, order_id) ==
  \/ get_book(symbol) = NoBook
  \/ order_id \notin DOMAIN books_[symbol].orders_

\* C19.  A cancel_order or modify_order step for an id that is not resting
\* in the named book, or for a symbol without a book, changes no book, level,
\* best pointer, order, counter or queue entry and creates no book.
C19_AbsentIsNoOp ==
  [][\A s \in AllSymbols : \A id \in 1..(config_.order_pool_size + 1) :
       (/\ NotResting(s, id)
        /\ \/ cancel_order(s, id)
           \/ \E q \in 0..MaxQty : modify_order(s, id, q)) =>
         UNCHANGED <<config_, order_pool_, pool_index_, books_, execution_queue_, total_orders_, total_matches_, running_, assert_failed>>]_vars

\* modify_order was called for a symbol that had no book, and there is still
\* no book.
C19_Witness ==
  /\ modify_calls = 1
  /\ books_ = <<>>
  /\ pool_index_ = 0

\* The best pointer of a side is null exactly when the side has no resting
\* order, and otherwise designates the extreme level of the side.
BestDerived(b, side) ==
  /\ (IF side = BUY THEN b.best_bid_ ELSE b.best_ask_) = Null <=> RestingSide(b, side) = {}
  /\ BestIsExtreme(b, side)

\* C20.  cancel_order of a resting id: after the step the id is not in the
\* id map and the order is in no FIFO, order_count is one less, the level
\* that held the order has its total_volume lowered by the order's remaining
\* quantity or, if the order was its only one, the index has no level of its
\* price any more, no level of the index is empty, and the best pointer of the order's side is
\* the extreme level of the side or null if the side is empty.
C20_CancelResting ==
  [][\A s \in DOMAIN books_ : \A id \in DOMAIN books_[s].orders_ :
       (modify_calls' = modify_calls /\ cancel_order(s, id)) =>
         /\ id \notin DOMAIN books_'[s].orders_
         /\ books_'[s].order_count_ = books_[s].order_count_ - 1
         /\ \A order \in 1..config_.order_pool_size :
              order = books_[s].orders_[id] =>
                /\ ~(InFifo(books_[s], order))'
                /\ \A side \in {BUY, SELL} :
                     side = order_pool_[order].side => (BestDerived(books_[s], side))'
                /\ \A l \in Index(books_[s], order_pool_[order].side) :
                     (\E i \in 1..Len(Fifo(books_[s], l)) : Fifo(books_[s], l)[i] = order) =>
                       IF Len(Fifo(books_[s], l)) = 1
                       THEN \A k \in 1..books_[s].pool_index_ :
                              ~(k \in Index(books_[s], order_pool_[order].side) /\ books_[s].price_level_pool_[k].price = order_pool_[order].price)'
                       ELSE \E k \in 1..books_[s].pool_index_ :
                              /\ (k \in Index(books_[s], order_pool_[order].side) /\ books_[s].price_level_pool_[k].price = order_pool_[order].price)'
                              /\ books_'[s].price_level_pool_[k].total_volume = books_[s].price_level_pool_[l].total_volume - order_pool_[order].remaining_quantity
         /\ NoEmptyLevel(books_[s])']_vars

\* ------------------------------------------------------------------ round trip

\* The FIFO of a level of book b over the order pool o, as order ids.
RECURSIVE IdChain(_, _, _)
IdChain(o, x, fuel) ==
  IF x = Null \/ fuel = 0 THEN <<>> ELSE <<o[x].order_id>> \o IdChain(o, o[x].next, fuel - 1)

\* What a level shows: price, total_volume, order_count and FIFO (the empty
\* sequence for a null pointer).
LevelView(o, b, l) ==
  IF l = Null THEN <<>>
  ELSE <<[price |-> b.price_level_pool_[l].price,
        total_volume |-> b.price_level_pool_[l].total_volume,
        order_count |-> b.price_level_pool_[l].order_count,
        fifo |-> IdChain(o, b.price_level_pool_[l].head_order, config_.order_pool_size + 1)]>>

\* The observable state of a book: the levels of both indexes, the best
\* pointers, the id map and order_count.
BookView(o, b) ==
  [bids |-> {LevelView(o, b, l) : l \in Index(b, BUY)},
   asks |-> {LevelView(o, b, l) : l \in Index(b, SELL)},
   best_bid |-> LevelView(o, b, b.best_bid_),
   best_ask |-> LevelView(o, b, b.best_ask_),
   orders |-> DOMAIN b.orders_,
   order_count |-> b.order_count_]

\* The book of symbol, as submit_order gets or creates it.
BookOf(symbol) == IF get_book(symbol) = NoBook THEN OrderBook ELSE books_[symbol]

\* A LIMIT order of this price and side does not cross the opposite best of
\* symbol's book (the test of submit_order).
NonCrossing(symbol, price, side) ==
  ~ \/ side = BUY /\ BookOf(symbol).best_ask_ # Null /\ ~ULess(price, BookOf(symbol).price_level_pool_[BookOf(symbol).best_ask_].price)
    \/ side = SELL /\ BookOf(symbol).best_bid_ # Null /\ ~ULess(BookOf(symbol).price_level_pool_[BookOf(symbol).best_bid_].price, price)

\* The book and pool after submit_order of a non-crossing LIMIT order under
\* the next fresh id of symbol, taking the next pool slot.
AfterAdd(symbol, price, quantity, side) ==
  OrderBook_add_order(
    Mem([order_pool_ EXCEPT ![pool_index_ + 1].order_id = next_order_id[symbol], ![pool_index_ + 1].timestamp = 1000, ![pool_index_ + 1].price = price, ![pool_index_ + 1].quantity = quantity, ![pool_index_ + 1].remaining_quantity = quantity, ![pool_index_ + 1].side = side, ![pool_index_ + 1].type = LIMIT], BookOf(symbol), assert_failed),
    pool_index_ + 1)

\* ... and after cancel_order of that id.
AfterAddCancel(symbol, price, quantity, side) ==
  OrderBook_cancel_order(AfterAdd(symbol, price, quantity, side), next_order_id[symbol])

\* C21.  From every state with a free pool slot, submitting a non-crossing
\* LIMIT order under a fresh id and cancelling that id gives the book the
\* observable state it had before.
C21_AddCancelRoundTrip ==
  pool_index_ < config_.order_pool_size =>
    \A symbol \in Symbols, price \in 1..MaxPrice, quantity \in 1..MaxQty, side \in {BUY, SELL} :
      NonCrossing(symbol, price, side) =>
        BookView(AfterAddCancel(symbol, price, quantity, side).o, AfterAddCancel(symbol, price, quantity, side).b)
          = BookView(order_pool_, BookOf(symbol))

\* The ids of the orders of a side in the id map of book b over the pool o.
RestingIds(o, b, side) == {id \in DOMAIN b.orders_ : o[b.orders_[id]].side = side}

\* The book, pool and reports after the matching of a MARKET order submitted
\* under the next fresh id of symbol, taking the next pool slot (a MARKET
\* order is not added to the book afterwards).
AfterMarket(symbol, quantity, side) ==
  match_order(
    Mem([order_pool_ EXCEPT ![pool_index_ + 1].order_id = next_order_id[symbol], ![pool_index_ + 1].timestamp = 1000, ![pool_index_ + 1].price = 0, ![pool_index_ + 1].quantity = quantity, ![pool_index_ + 1].remaining_quantity = quantity, ![pool_index_ + 1].side = side, ![pool_index_ + 1].type = MARKET], BookOf(symbol), assert_failed),
    pool_index_ + 1)

\* C22.  From every state with a free pool slot, a MARKET order leaves the
\* resting orders of its own side as they were, and when no order rests on
\* the contra side it gets no report and leaves the book's observable state
\* and match_count as they were.
C22_MarketNeverRests ==
  pool_index_ < config_.order_pool_size =>
    \A symbol \in Symbols, quantity \in 1..MaxQty, side \in {BUY, SELL} :
      /\ RestingIds(AfterMarket(symbol, quantity, side).o, AfterMarket(symbol, quantity, side).b, side)
           = RestingIds(order_pool_, BookOf(symbol), side)
      /\ RestingIds(order_pool_, BookOf(symbol), Contra(side)) = {} =>
           /\ AfterMarket(symbol, quantity, side).reports = <<>>
           /\ BookView(AfterMarket(symbol, quantity, side).o, AfterMarket(symbol, quantity, side).b)
                = BookView(order_pool_, BookOf(symbol))
           /\ AfterMarket(symbol, quantity, side).b.match_count_ = BookOf(symbol).match_count_

\* The number of the first i passive orders of the latest submit_order that
\* were filled completely (and so taken off the book).
RECURSIVE FilledPassives(_)
FilledPassives(i) ==
  IF i = 0 THEN 0
  ELSE (IF order_pool_[last.passives[i]].remaining_quantity = 0 THEN 1 ELSE 0) + FilledPassives(i - 1)

\* The latest submit_order was a LIMIT order that was filled in part.
PartialLimit ==
  /\ Submitted
  /\ order_pool_[last.order].type = LIMIT
  /\ Len(last.reports) >= 1
  /\ SumExecuted(last.reports, Len(last.reports)) < order_pool_[last.order].quantity

\* The order of the latest submit_order is in the id map, is the tail of the
\* FIFO of a level of its own side's index at its own price, which its
\* back-pointer designates, and has its quantity minus its fills remaining.
RemainderRests ==
  LET agg == order_pool_[last.order]
      b == books_[last.symbol]
  IN  /\ agg.order_id \in DOMAIN b.orders_
      /\ b.orders_[agg.order_id] = last.order
      /\ agg.remaining_quantity = agg.quantity - SumExecuted(last.reports, Len(last.reports))
      /\ \E l \in Index(b, agg.side) :
           /\ agg.parent_level = l
           /\ b.price_level_pool_[l].price = agg.price
           /\ b.price_level_pool_[l].tail_order = last.order
           /\ Fifo(b, l) # <<>>
           /\ Fifo(b, l)[Len(Fifo(b, l))] = last.order

\* C23.  After a submit_order of a LIMIT order that was filled in part, the
\* remainder rests (RemainderRests) and order_count has grown by one for it
\* (less the passive orders its fills took off the book).
C23_PartialFillRests ==
  [][(pool_index_' # pool_index_ /\ PartialLimit') =>
       /\ RemainderRests'
       /\ \A s \in AllSymbols : s = last'.symbol =>
            books_'[s].order_count_ = get_order_count(books_, s) + 1 - FilledPassives(Len(last.passives))']_vars

\* A LIMIT order was filled in part and its remainder rests.
C23_Witness ==
  /\ PartialLimit
  /\ RemainderRests
  /\ order_pool_[last.order].remaining_quantity = 1
  /\ order_pool_[last.order].quantity = 2

\* The best pointer of a side of book b.
Best(b, side) == IF side = BUY THEN b.best_bid_ ELSE b.best_ask_

C25_ZeroQuantityNoOp ==
  [][\A s \in AllSymbols : \A order \in 1..config_.order_pool_size :
       (/\ pool_index_' # pool_index_
        /\ last'.symbol = s
        /\ last'.order = order
        /\ order_pool_'[order].quantity = 0) =>
         /\ last'.reports = <<>>
         /\ order_pool_'[order].order_id \notin DOMAIN books_'[s].orders_
         /\ BookView(order_pool_', books_'[s]) = BookView(order_pool_, BookOf(s))
         /\ books_'[s].match_count_ = BookOf(s).match_count_]_vars

\* A LIMIT BUY of quantity 0 at a crossing price was submitted while a SELL
\* order rested, which still rests.
C25_Witness ==
  /\ Submitted
  /\ order_pool_[last.order].quantity = 0
  /\ order_pool_[last.order].type = LIMIT
  /\ order_pool_[last.order].side = BUY
  /\ books_[last.symbol].best_ask_ # Null
  /\ ~ULess(order_pool_[last.order].price, books_[last.symbol].price_level_pool_[books_[last.symbol].best_ask_].price)
  /\ books_[last.symbol].order_count_ = 1

get_total_orders == total_orders_

get_total_matches == total_matches_

PoppedCount == LET RECURSIVE Count(_)
                   Count(S) == IF S = {} THEN 0
                               ELSE LET s == CHOOSE x \in S : TRUE
                                    IN  Len(popped[s]) + Count(S \ {s})
               IN  Count(AllSymbols)

\* The match_ids of reports[1..k].
MatchIds(reports, k) == [i \in 1..k |-> reports[i].match_id]

\* C29.  get_total_matches is the number of reports pushed on the execution
\* queue, those popped since plus those still queued.  A submit_order pushes
\* and counts a prefix of its reports, all of them unless the queue is full
\* after the prefix; whatever was dropped, the fills stand (the book's match
\* count and the aggressor's remaining quantity account for every report),
\* the order is counted in total_orders and the remainder of the LIMIT order
\* rests.
C29_TotalMatches ==
  [][/\ get_total_matches' = PoppedCount' + QueueSize'
     /\ pool_index_' # pool_index_ /\ last'.order # Null =>
          LET reports == last'.reports
              pushed == get_total_matches' - get_total_matches
          IN  /\ pushed \in 0..Len(reports)
              /\ pushed < Len(reports) => QueueSize' = Capacity - 1
              /\ \A s \in AllSymbols :
                   Delivered(s)' = Delivered(s) \o (IF s = last'.symbol THEN MatchIds(reports, pushed) ELSE <<>>)
              /\ get_match_count(books_', last'.symbol) = get_match_count(books_, last'.symbol) + Len(reports)
              /\ order_pool_'[last'.order].remaining_quantity = order_pool_'[last'.order].quantity - SumExecuted(reports, Len(reports))
              /\ get_total_orders' = get_total_orders + 1
              /\ (order_pool_'[last'.order].remaining_quantity > 0 /\ order_pool_'[last'.order].type = LIMIT) => RemainderRests'
     /\ pool_index_' = pool_index_ => get_total_matches' = get_total_matches]_vars

\* The latest submit_order made more fills than the queue had room for: some
\* of its reports were pushed and counted, the others dropped, and the
\* remainder of the order rests.
C29_Witness ==
  /\ Submitted
  /\ Len(last.reports) = 4
  /\ Dropped = 1
  /\ get_total_matches = 3
  /\ QueueSize = Capacity - 1
  /\ get_total_orders = pool_index_
  /\ order_pool_[last.order].remaining_quantity > 0
  /\ RemainderRests

\* The items of the execution queue's buffer_ and the consumer's item.
Items == {execution_queue_.buffer_[i] : i \in 0..(Capacity - 1)} \cup {consumer_report}

\* The unread items of q, oldest first.
RECURSIVE Unread(_, _, _)
Unread(q, i, n) == IF n = 0 THEN <<>> ELSE <<q.buffer_[i]>> \o Unread(q, (i + 1) % Capacity, n - 1)

\* C30.  On a full execution queue (Capacity - 1 unread items) push of any
\* item returns false and leaves buffer_, head_ and tail_, hence the unread
\* items, as they were; on an empty one pop returns false and leaves the
\* caller's item, head_ and tail_ as they were.
C30_FullAndEmpty ==
  LET q == execution_queue_
  IN  /\ QueueSize = Capacity - 1 =>
           \A item \in Items :
             /\ push(q, item).ok = FALSE
             /\ push(q, item).q = q
             /\ Unread(push(q, item).q, q.tail_, Capacity - 1) = Unread(q, q.tail_, Capacity - 1)
      /\ QueueSize = 0 =>
           /\ pop(q, consumer_report).ok = FALSE
           /\ pop(q, consumer_report).item = consumer_report
           /\ pop(q, consumer_report).q = q
           /\ consume(Consumer) = Consumer

\* A push failed on the full queue (a report was dropped) and the consumer
\* then popped every report queued: its next pop is one on an empty queue,
\* with an item that holds the report popped last.
C30_Witness ==
  /\ Dropped >= 1
  /\ QueueSize = 0
  /\ PoppedCount = Capacity - 1
  /\ get_total_matches = Capacity - 1
  /\ consumer_report # Uninit
  /\ consumer_report \in Items
  /\ \E s \in AllSymbols : Len(popped[s]) >= 1 /\ consumer_report.match_id = popped[s][Len(popped[s])]

\* p is a prefix of q.
IsPrefix(p, q) == Len(p) <= Len(q) /\ \A i \in 1..Len(p) : p[i] = q[i]

\* C31.  With the producer and the consumer interleaved statement by
\* statement, the items of the pops that returned true are a prefix of the
\* items of the pushes that returned true, none of them a buffer_ entry never
\* written; once both threads are between calls and the queue is empty, the
\* two sequences are equal.
C31_PoppedPrefixOfPushed ==
  /\ IsPrefix(popper.returned, pusher.accepted)
  /\ \A i \in 1..Len(popper.returned) : popper.returned[i] # Uninit
  /\ (pusher.pc = "idle" /\ popper.pc = "idle" /\ execution_queue_.head_ = execution_queue_.tail_)
       => popper.returned = pusher.accepted

\* Every push of the run returned true, the last ones into entries used
\* before, and the consumer drained the queue.
C31_Witness ==
  /\ Len(pusher.accepted) = RingPushes
  /\ RingPushes > Capacity
  /\ popper.returned = pusher.accepted
  /\ pusher.pc = "idle" /\ popper.pc = "idle"

\* C32.  A symbol has a book exactly when a submit_order named it.  A
\* submit_order adds the book of its symbol to the directory if it is not
\* there and no other; no other step adds one; a book of the directory stays
\* in it and is never replaced by a new one (its level pool cursor and its
\* match count never go back).
C32_OneBookPerSymbol ==
  [][\A s \in AllSymbols :
       /\ (get_book(s) # NoBook)' <=> next_order_id'[s] > 1
       /\ (get_book(s) = NoBook)' => s \notin DOMAIN books_'
       /\ DOMAIN books_' = DOMAIN books_ \cup (IF pool_index_' # pool_index_ THEN {last'.symbol} ELSE {})
       /\ get_book(s) # NoBook =>
            /\ (get_book(s))' = get_book(s)
            /\ books_'[s].pool_index_ >= books_[s].pool_index_
            /\ books_'[s].match_count_ >= books_[s].match_count_
            /\ (pool_index_' # pool_index_ /\ last'.symbol = s /\ last'.reports = <<>>) =>
                 \A id \in DOMAIN books_[s].orders_ : id \in DOMAIN books_'[s].orders_]_vars

\* Two submit_order calls named one symbol and both orders rest in its book;
\* no call named the other symbol and it has no book.
C32_Witness ==
  \E s \in AllSymbols, t \in AllSymbols :
    /\ get_book(s) = s
    /\ books_[s].order_count_ = 2
    /\ Cardinality(DOMAIN books_[s].orders_) = 2
    /\ next_order_id[t] = 1
    /\ get_book(t) = NoBook

\* C33.  is_running is false after construction.  A step that changes the
\* flag changes nothing else, start() leaves it true and stop() false.
\* Whatever the flag, the order operations leave it alone and take effect:
\* a submit_order takes the next slot, constructs its order in it and is
\* counted; a cancel_order of a resting id removes the id from the book; a
\* modify_order of a resting id to a quantity from 1 to the order's own sets
\* its remaining quantity.
C33_RunningAdvisory ==
  /\ ~is_running
  /\ [][/\ is_running' # is_running =>
             UNCHANGED <<config_, order_pool_, pool_index_, books_, execution_queue_, total_orders_, total_matches_, assert_failed, next_order_id, modify_calls, last, reported, queue_symbol, consumer_report, popped>>
        /\ start => is_running'
        /\ stop => ~is_running'
        /\ next_order_id' # next_order_id =>
             /\ is_running' = is_running
             /\ pool_index_' = pool_index_ + 1
             /\ get_total_orders' = get_total_orders + 1
             /\ \E s \in AllSymbols :
                  /\ next_order_id'[s] = next_order_id[s] + 1
                  /\ last'.symbol = s
                  /\ order_pool_'[pool_index_'].order_id = next_order_id[s]
                  /\ order_pool_'[pool_index_'].quantity \in 1..MaxQty
                  /\ get_book(s)' = s
        /\ \A s \in DOMAIN books_ : \A id \in DOMAIN books_[s].orders_ :
             /\ (modify_calls' = modify_calls /\ cancel_order(s, id)) =>
                  /\ is_running' = is_running
                  /\ id \notin DOMAIN books_'[s].orders_
             /\ \A q \in 1..order_pool_[books_[s].orders_[id]].quantity :
                  (modify_calls' # modify_calls /\ modify_order(s, id, q)) =>
                    /\ is_running' = is_running
                    /\ order_pool_'[books_[s].orders_[id]].remaining_quantity = q]_vars

\* The engine was started; two orders were submitted, one of them rests, and
\* a modify_order was made.
C33_Witness ==
  /\ is_running
  /\ get_total_orders = 2
  /\ modify_calls = 1
  /\ \E s \in DOMAIN books_ : books_[s].order_count_ = 1

\* C34.  No assertion of the core has failed: the price equality of
\* PriceLevel::add_order, parent_level == this of PriceLevel::remove_order
\* and the level pool bound of OrderBook::insert_level held in every call
\* made so far.
C34_NoAssertionFails == ~assert_failed

\* The price, FIFO, total_volume and order_count of the levels present in the
\* index of a side of b.
Views(b, side) == {LevelView(order_pool_, b, k) : k \in Index(b, side)}

\* Every resting order's parent_level and both best pointers of b designate
\* levels present in the index.
PointersInIndex(b) ==
  /\ \A x \in Resting(b) : order_pool_[x].parent_level \in Index(b, order_pool_[x].side)
  /\ b.best_bid_ \in Index(b, BUY) \cup {Null}
  /\ b.best_ask_ \in Index(b, SELL) \cup {Null}

\* C35.  A cancel_order of the only order of a level that has two child
\* levels removes only that level: every other level of the index is present
\* afterwards with its price, FIFO, total_volume and order_count, and every
\* resting order's parent_level and both best pointers designate levels of
\* the index.
C35_RemoveTwoChildLevel ==
  [][\A s \in DOMAIN books_ : \A id \in DOMAIN books_[s].orders_ :
       \A order \in 1..config_.order_pool_size : \A l \in 1..books_[s].pool_index_ :
         (/\ modify_calls' = modify_calls
          /\ cancel_order(s, id)
          /\ order = books_[s].orders_[id]
          /\ l = order_pool_[order].parent_level
          /\ l \in Index(books_[s], order_pool_[order].side)
          /\ Fifo(books_[s], l) = <<order>>
          /\ books_[s].price_level_pool_[l].left # Null
          /\ books_[s].price_level_pool_[l].right # Null) =>
           /\ \A side \in {BUY, SELL} : \A v \in Views(books_[s], side) :
                v # LevelView(order_pool_, books_[s], l) => v \in Views(books_[s], side)'
           /\ PointersInIndex(books_[s])']_vars

\* The sum of the remaining quantities of the orders of the set S.
RECURSIVE SumResting(_)
SumResting(S) ==
  IF S = {} THEN 0
  ELSE LET x == CHOOSE y \in S : TRUE
       IN  order_pool_[x].remaining_quantity + SumResting(S \ {x})

\* The total resting quantity of a side of b.
RestingQuantity(b, side) == SumResting(RestingSide(b, side))

\* C36.  In a submit_order the i-th fill's quantity is the minimum of what
\* remained of the aggressor after the fills before it and of the passive
\* order's remaining quantity, and the passive order's remaining quantity
\* decreases by it; the executed quantities of the reports sum to the
\* decrease of the aggressor's remaining quantity and to the decrease of the
\* total resting quantity of the contra side.
C36_QuantityConservation ==
  [][(pool_index_' # pool_index_ /\ last'.order # Null) =>
       \A s \in AllSymbols : \A side \in {BUY, SELL} : \A n \in 0..config_.order_pool_size :
         (s = last'.symbol /\ side = Contra(order_pool_'[last'.order].side) /\ n = Len(last'.reports)) =>
           /\ \A i \in 1..n : \A passive \in 1..config_.order_pool_size :
                passive = last'.passives[i] =>
                  /\ last'.reports[i].executed_quantity
                       = StdMin(order_pool_'[last'.order].quantity - (SumExecuted(last.reports, i - 1))', order_pool_[passive].remaining_quantity)
                  /\ order_pool_'[passive].remaining_quantity = order_pool_[passive].remaining_quantity - last'.reports[i].executed_quantity
           /\ (SumExecuted(last.reports, n))' = order_pool_'[last'.order].quantity - order_pool_'[last'.order].remaining_quantity
           /\ (SumExecuted(last.reports, n))' = RestingQuantity(BookOf(s), side) - (RestingQuantity(BookOf(s), side))']_vars

\* The level nodes b handed out, and those below node k over child links.
Nodes(b) == 1..b.pool_index_

Below(b, k) == Reach(b, {b.price_level_pool_[k].left, b.price_level_pool_[k].right} \ {Null}, {})

\* No node of b is below itself, and no FIFO of a node of b comes back to an
\* order it passed: the walks over right or left links of update_best_bid,
\* update_best_ask, get_total_bid_volume, get_total_ask_volume and the
\* successor walk of remove_level, and the walk over next links of
\* match_order's inner loop, are finite from any node.
FiniteWalks(b) ==
  /\ \A k \in Nodes(b) : k \notin Below(b, k)
  /\ \A k \in Nodes(b) : Len(Fifo(b, k)) <= config_.order_pool_size

\* The number of iterations of match_order's outer loop from contra_level
\* on, -1 if there are more than fuel.
RECURSIVE match_iterations(_, _, _, _)
match_iterations(m, order, contra_level, fuel) ==
  IF m.o[order].remaining_quantity = 0 \/ contra_level = Null THEN 0
  ELSE IF fuel = 0 THEN -1
  ELSE IF /\ m.o[order].type = LIMIT
          /\ \/ m.o[order].side = BUY /\ ULess(m.o[order].price, Lv(m, contra_level).price)
             \/ m.o[order].side = SELL /\ ULess(Lv(m, contra_level).price, m.o[order].price)
       THEN 1
  ELSE LET next_level(x) == IF x.o[order].side = BUY THEN Lv(x, contra_level).right ELSE Lv(x, contra_level).left
           depleted(x) == IF x.o[order].side = BUY
                          THEN [remove_level(x, contra_level, SELL) EXCEPT !.b.best_ask_ = next_level(x)]
                          ELSE [remove_level(x, contra_level, BUY) EXCEPT !.b.best_bid_ = next_level(x)]
           more(n) == IF n < 0 THEN n ELSE n + 1
           rest(x) == IF Lv(x, contra_level).order_count = 0
                      THEN more(match_iterations(depleted(x), order, next_level(x), fuel - 1))
                      ELSE 1
       IN  rest(match_level(m, order, contra_level, Lv(m, contra_level).head_order))

\* The memory in which a MARKET order of the given side for more than all
\* the quantity of the pool has been constructed in the next pool slot.
Sweeper(symbol, side) ==
  Mem([order_pool_ EXCEPT ![pool_index_ + 1] = [Order EXCEPT !.order_id = next_order_id[symbol], !.timestamp = 1000, !.quantity = 1 + SumResting(1..pool_index_), !.remaining_quantity = 1 + SumResting(1..pool_index_), !.side = side, !.type = MARKET]],
      BookOf(symbol), assert_failed)

\* C37.  In every reachable state the child links and the FIFOs of every
\* book are free of cycles, so that the rescans of the best pointers, the
\* volume walks, the successor walk and match_order's inner loop end; and
\* match_order's outer loop, run for a MARKET order that nothing can fill
\* completely, ends after at most one iteration per level node handed out.
C37_Terminates ==
  /\ \A b \in Books : FiniteWalks(b)
  /\ pool_index_ < config_.order_pool_size =>
       \A symbol \in Symbols, side \in {BUY, SELL} :
         match_iterations(Sweeper(symbol, side), pool_index_ + 1,
                          IF side = BUY THEN BookOf(symbol).best_ask_ ELSE BookOf(symbol).best_bid_,
                          BookOf(symbol).pool_index_) \in 0..BookOf(symbol).pool_index_

\* A book in which best_ask_ or best_bid_ or the parent_level of a resting
\* order designates a node that is not in the index, and in which the outer
\* loop of match_order makes two iterations for a MARKET order.
C37_Witness ==
  /\ pool_index_ < config_.order_pool_size
  /\ \E symbol \in Symbols, side \in {BUY, SELL} :
       /\ get_book(symbol) # NoBook
       /\ ~PointersInIndex(books_[symbol])
       /\ match_iterations(Sweeper(symbol, side), pool_index_ + 1,
                           IF side = BUY THEN books_[symbol].best_ask_ ELSE books_[symbol].best_bid_,
                           books_[symbol].pool_index_) = 2

\* C38.  Every execution report of the latest submit_order has an
\* executed_quantity of at least 1.
C38_ExecutedPositive ==
  Submitted => \A i \in 1..Len(last.reports) : last.reports[i].executed_quantity >= 1

\* SPSCQueue::size().
size(q) == IF q.head_ >= q.tail_ THEN q.head_ - q.tail_ ELSE Capacity - q.tail_ + q.head_

\* C39.  head_ and tail_ are always in 0..Capacity-1 and size() in
\* 0..Capacity-1; the items accepted and not yet returned are never more
\* than Capacity - 1, and size() is their number when neither thread is
\* inside a call; as long as no pop has returned an item, the first
\* Capacity - 1 calls of push return true and every later one false.
C39_CapacityMinusOne ==
  /\ execution_queue_.head_ \in 0..(Capacity - 1)
  /\ execution_queue_.tail_ \in 0..(Capacity - 1)
  /\ size(execution_queue_) \in 0..(Capacity - 1)
  /\ Len(pusher.accepted) - Len(popper.returned) \in 0..(Capacity - 1)
  /\ (pusher.pc = "idle" /\ popper.pc = "idle") =>
       size(execution_queue_) = Len(pusher.accepted) - Len(popper.returned)
  /\ popper.returned = <<>> =>
       \A i \in 1..Len(pusher.results) : pusher.results[i] <=> i <= Capacity - 1

\* No pop has returned an item; Capacity - 1 calls of push returned true and
\* the next one false, the queue holding Capacity - 1 items.
C39_Witness ==
  /\ popper.returned = <<>>
  /\ Len(pusher.results) = Capacity
  /\ ~pusher.results[Capacity]
  /\ Len(pusher.accepted) = Capacity - 1
  /\ size(execution_queue_) = Capacity - 1

\* The pool slots that the book b refers to: the orders of its id map and
\* those of the FIFOs of its level nodes.
OrdersOf(b) == Resting(b) \cup {x \in 1..config_.order_pool_size : \E k \in Nodes(b) : \E i \in 1..Len(Fifo(b, k)) : Fifo(b, k)[i] = x}

\* C40.  A submit_order, cancel_order or modify_order naming symbol s leaves
\* every other symbol t as it was: t has a book afterwards only if it had
\* one, that book is unchanged (level nodes, FIFOs, best pointers, id map,
\* order_count, match_count) and so is every order it refers to.
C40_SymbolIsolation ==
  [][\A s \in AllSymbols : \A t \in AllSymbols \ {s} :
       (\/ pool_index_' # pool_index_ /\ last'.symbol = s
        \/ modify_calls' = modify_calls /\ \E id \in 1..config_.order_pool_size : cancel_order(s, id)
        \/ modify_calls' # modify_calls /\ \E id \in 1..config_.order_pool_size : \E q \in 0..MaxQty : modify_order(s, id, q)) =>
         /\ (get_book(t))' = get_book(t)
         /\ get_book(t) # NoBook =>
              /\ books_'[t] = books_[t]
              /\ \A x \in OrdersOf(books_[t]) : order_pool_'[x] = order_pool_[x]]_vars

\* Both books hold a resting order with id 1; an order of one book was
\* filled, an order of one was cancelled or filled completely and a
\* modify_order was made.
C40_Witness ==
  \E s \in AllSymbols : \E t \in AllSymbols \ {s} :
    /\ get_book(s) # NoBook /\ get_book(t) # NoBook
    /\ 1 \in DOMAIN books_[s].orders_
    /\ 1 \in DOMAIN books_[t].orders_
    /\ books_[s].match_count_ = 1
    /\ books_[t].match_count_ = 0
    /\ modify_calls = 1
    /\ pool_index_ = PairPoolSize

====
